---- MODULE Spec2Model ----
(***************************************************************************)
(* A model of WonderMr/Agents: the semantic router (src/engine/router.py)  *)
(* and the prompt resolver (src/utils/prompt_loader.py).                   *)
(*                                                                         *)
(* Numbers.  Distances are Python floats.  A float is kept as a decimal    *)
(* fixed-point number of 18 places in two limbs, [n |-> nano, e |-> atto], *)
(* value = n * 10^-9 + e * 10^-18 with 0 <= e < 10^9, which is fine enough *)
(* to tell the double nearest 0.05 from the double (1 - 0.95).             *)
(* Confidences are compared only with literals of two decimals, so they    *)
(* are kept as integers in hundredths (0.8 is 80).                         *)
(***************************************************************************)
EXTENDS Integers, Sequences, FiniteSets, TLC

VARIABLES
    available_agents,  \* SemanticRouter.available_agents
    collection,        \* the "router_cache" collection: id -> [document, metadata]
    last,              \* the call that was made last and what it met
    ret,               \* what that call returned
    fs,                \* the machine: [root, files]
    lpc,               \* load_agent_prompt: "idle", "expanding", "done", "raised"
    stack,             \* the calls of process_imports in progress, innermost last
    result,            \* what load_agent_prompt returned or raised
    retriever,         \* a retriever: its class, its directory, its collection
    tasks,             \* the calls in progress that await something
    detector,          \* a LanguageDetector: its backend and its lru_cache
    SESSION_CACHE,     \* server.SESSION_CACHE: cache key -> composed prompt
    world              \* what the tools of the server read: profiles and stores

routerVars == <<available_agents, collection, last, ret>>
loaderVars == <<fs, lpc, stack, result>>
engineVars == <<retriever, tasks>>
serverVars == <<detector, SESSION_CACHE, world>>
vars == <<available_agents, collection, last, ret, fs, lpc, stack, result,
          retriever, tasks, detector, SESSION_CACHE, world>>

-----------------------------------------------------------------------------
(* Floats                                                                  *)

F(n, e) == [n |-> n, e |-> e]

FLess(a, b) == a.n < b.n \/ (a.n = b.n /\ a.e < b.e)

FLeq(a, b) == a = b \/ FLess(a, b)

\* a - b for a >= b; the subtraction 1 - 0.95 is exact in binary64
FSub(a, b) ==
    IF a.e >= b.e THEN F(a.n - b.n, a.e - b.e)
    ELSE F(a.n - b.n - 1, a.e + 10^9 - b.e)

FZero == F(0, 0)
FOne == F(10^9, 0)

\* the double written 0.95: 0.949999999999999955591...
SIMILARITY_THRESHOLD == F(949999999, 999999956)

\* doubles a store can hand back as a distance
D_Closer == F(15625000, 0)            \* 0.015625
D_Near == F(31250000, 0)              \* 0.03125
D_Double005 == F(50000000, 3)         \* the double written 0.05: 0.0500000000000000027...
D_Single005 == F(50000000, 745058060) \* the float32 nearest 0.05, widened
D_Far == F(500000000, 0)              \* 0.5

\* the real number 0.05
Real005 == F(50000000, 0)

-----------------------------------------------------------------------------
(* Texts and the embedding space of the store                              *)

\* A text is a sequence of characters.
NL == "\n"

Q_SQL == <<"s">>
Q_SQL_A == <<"s", "a">>
Q_SQL_B == <<"s", "b">>
Queries == {Q_SQL, Q_SQL_A, Q_SQL_B}

NoHistory == <<>>
Histories == {NoHistory, <<"h">>}

\* Where a character moves a text on the line the texts are embedded on.
CharShift(c) ==
    CASE c = "s" -> 0
      [] c = "a" -> 2
      [] c = "b" -> 4
      [] c = "h" -> 3
      [] c = NL -> 4
      [] c \in {"Query: ", "Role: ", "Context: "} -> 0
      [] c = "q" -> 8
      [] c = "t" -> 20
      [] c = "u" -> 21
      [] c = "v" -> 22
      [] c = "w" -> 23
      [] c = "x" -> 24
      [] OTHER -> 11

RECURSIVE Embed(_)
Embed(text) ==
    IF text = <<>> THEN 0 ELSE CharShift(Head(text)) + Embed(Tail(text))

Abs(i) == IF i < 0 THEN -i ELSE i

\* cosine distance of two texts' embeddings: 0 for the same text
Distance(a, b) ==
    LET gap == Abs(Embed(a) - Embed(b))
    IN CASE gap = 0 -> FZero
         [] gap = 1 -> D_Closer
         [] gap = 2 -> D_Near
         [] gap = 3 -> D_Double005
         [] gap = 4 -> D_Single005
         [] gap = 20 -> F(449999988, 79071045)   \* the float32 nearest 0.45
         [] gap = 21 -> F(450000000, 11)         \* the double written 0.45
         [] gap = 22 -> F(729999959, 468841553)  \* the float32 next below 0.73
         [] gap = 23 -> F(729999999, 999999982)  \* the double written 0.73
         [] gap = 24 -> F(730000019, 73486328)   \* the float32 nearest 0.73
         [] OTHER -> D_Far

-----------------------------------------------------------------------------
(* The collection (chromadb)                                               *)

MaxIds == 2
RequestIds == 1..MaxIds

EmptyCollection == [i \in {} |-> 0]

\* Collection.query(query_texts=[text], n_results=1): the possible answers.
\* Entries at the same smallest distance may come back in either order.
CollectionQuery(coll, text) ==
    IF DOMAIN coll = {}
    THEN {[ids |-> << <<>> >>, distances |-> << <<>> >>, metadatas |-> << <<>> >>]}
    ELSE {[ids |-> << <<i>> >>,
           distances |-> << <<Distance(coll[i].document, text)>> >>,
           metadatas |-> << <<coll[i].metadata>> >>] :
            i \in {j \in DOMAIN coll :
                     \A k \in DOMAIN coll :
                        FLeq(Distance(coll[j].document, text),
                             Distance(coll[k].document, text))}}

\* Collection.add(documents=[doc], metadatas=[meta], ids=[id]): an id that is
\* already there is left as it is.
CollectionAdd(coll, id, doc, meta) ==
    IF id \in DOMAIN coll THEN coll
    ELSE [i \in DOMAIN coll \cup {id} |->
            IF i = id THEN [document |-> doc, metadata |-> meta] ELSE coll[i]]

-----------------------------------------------------------------------------
(* RouterDecision and the classifier                                       *)

None == [kind |-> "none"]
Raised(what) == [kind |-> "raised", error |-> what]

\* What a coroutine that awaits run_in_executor is resumed with: nothing as
\* long as the worker thread has not run the job, and then what the job
\* returned or raised.  The event loop resumes the coroutine later, and
\* other callbacks run in between.
Pending == [kind |-> "pending"]
Delivered(value) == [kind |-> "delivered", value |-> value]

RouterDecision(agent, conf, reasoning, cached) ==
    [kind |-> "decision", target_agent |-> agent, confidence |-> conf,
     reasoning |-> reasoning, is_cached |-> cached]

Reason(text, distance) == [text |-> text, distance |-> distance]
NoDistance == F(-1, 0)

UNIVERSAL == "universal_agent"
SECURITY == "security_expert"
GHOST == "ghost_agent"

\* what the classifier call can come to
ConfidenceValues == {80, 95}
ClassifierObjects ==
    {[kind |-> "object", target_agent |-> a, confidence |-> c, reasoning |-> "llm"] :
        a \in {SECURITY, GHOST}, c \in ConfidenceValues}
ClassifierFailures ==
    {[kind |-> k] : k \in {"init_error", "transport_error", "not_json", "bad_shape"}}
IsFailure(response) == response \in ClassifierFailures
ClassifierResponses == ClassifierObjects \cup ClassifierFailures
NotCalled == [kind |-> "not_called"]

-----------------------------------------------------------------------------
(* Paths (os.path) and files                                               *)

\* An absolute path is the sequence of its components below "/"; one that
\* is written with two leading slashes has "" for its first component.

\* The machine the program runs on: where the repository lies (REPO_ROOT is
\* computed from the place of the module prompt_loader.py), its files,
\* absolute path -> [kind, content, target], the frames of the interpreter
\* and whether the process has compiled the pattern of process_imports
\* before (re keeps what it compiles).  frames: how many calls the
\* interpreter lets nest inside a function that load_agent_prompt calls,
\* sys.getrecursionlimit() less the depth of the stack there (997 in a script
\* that calls load_agent_prompt at module level under the limit of 1000).
Machine(root, files, frames, compiled) ==
    [root |-> root, files |-> files, frames |-> frames, compiled |-> compiled]

REPO_ROOT(fsys) == fsys.root

IsPrefix(p, q) == Len(p) <= Len(q) /\ SubSeq(q, 1, Len(p)) = p

Front(p) == SubSeq(p, 1, Len(p) - 1)

\* A path reference as written: "@" or not, a leading "/" or not, components.
Ref(at, abs, comps) == [at |-> at, abs |-> abs, comps |-> comps]
NoRef == Ref(FALSE, FALSE, <<>>)

\* os.path.join(base, ref): an absolute second part replaces the first
Join(base, ref) == IF ref.abs THEN ref.comps ELSE base \o ref.comps

\* The loop of os.path.normpath over the components that follow the leading
\* slashes: "." and "" dropped, ".." taken lexically, and ".." at the root
\* stays at the root
RECURSIVE NormalizeFrom(_, _)
NormalizeFrom(acc, comps) ==
    IF comps = <<>> THEN acc
    ELSE LET c == Head(comps)
         IN IF c \in {".", ""} THEN NormalizeFrom(acc, Tail(comps))
            ELSE IF c = ".."
                 THEN NormalizeFrom(IF acc = <<>> THEN <<>> ELSE Front(acc), Tail(comps))
                 ELSE NormalizeFrom(Append(acc, c), Tail(comps))

\* os.path.abspath of an absolute path.  Exactly two leading slashes are
\* kept (POSIX), three or more are one.
abspath(p) ==
    IF p # <<>> /\ Head(p) = "" /\ (Len(p) = 1 \/ p[2] # "")
    THEN <<"">> \o NormalizeFrom(<<>>, Tail(p))
    ELSE NormalizeFrom(<<>>, p)

\* os.path.commonpath([p, q]) of two absolute paths: the components "" and
\* "." are left out, so the answer has one leading slash
RECURSIVE commonpath(_, _)
commonpath(p, q) ==
    IF p # <<>> /\ Head(p) \in {"", "."} THEN commonpath(Tail(p), q)
    ELSE IF q # <<>> /\ Head(q) \in {"", "."} THEN commonpath(p, Tail(q))
    ELSE IF p = <<>> \/ q = <<>> \/ Head(p) # Head(q) THEN <<>>
    ELSE <<Head(p)>> \o commonpath(Tail(p), Tail(q))

\* os.path.relpath(p, start) of two normalized absolute paths; the empty
\* component of two leading slashes is left out
relpath(p, start) ==
    LET path_list == IF p # <<>> /\ Head(p) = "" THEN Tail(p) ELSE p
        start_list == IF start # <<>> /\ Head(start) = "" THEN Tail(start) ELSE start
        k == Len(commonpath(path_list, start_list))
    IN [i \in 1..(Len(start_list) - k) |-> ".."] \o SubSeq(path_list, k + 1, Len(path_list))

File(content) == [kind |-> "file", content |-> content, target |-> <<>>]
Directory == [kind |-> "dir", content |-> <<>>, target |-> <<>>]
\* a symbolic link to a regular file
Link(target) == [kind |-> "link", content |-> <<>>, target |-> target]
Absent == [kind |-> "absent", content |-> <<>>, target |-> <<>>]

\* the file system's view of a path
IsDir(fsys, d) ==
    \/ d = <<>>
    \/ \E f \in DOMAIN fsys.files : Len(f) > Len(d) /\ IsPrefix(d, f)
    \/ (d \in DOMAIN fsys.files /\ fsys.files[d].kind = "dir")

\* the file a path names once a symbolic link in its last place is
\* followed; to the kernel two leading slashes are one
Follow(fsys, p) ==
    LET q == IF p # <<>> /\ Head(p) = "" THEN Tail(p) ELSE p
    IN IF q \in DOMAIN fsys.files /\ fsys.files[q].kind = "link"
       THEN fsys.files[q].target
       ELSE q

\* os.path.exists: the path is walked component by component, ".." through
\* directories that exist, and a link is followed to what it names
RECURSIVE ExistsFrom(_, _, _)
ExistsFrom(fsys, cur, comps) ==
    IF comps = <<>>
    THEN LET q == Follow(fsys, cur)
         IN \/ (q \in DOMAIN fsys.files /\ fsys.files[q].kind \in {"file", "dir"})
            \/ IsDir(fsys, q)
    ELSE /\ IsDir(fsys, cur)
         /\ LET c == Head(comps)
            IN IF c \in {".", ""} THEN ExistsFrom(fsys, cur, Tail(comps))
               ELSE IF c = ".."
                    THEN ExistsFrom(fsys, IF cur = <<>> THEN <<>> ELSE Front(cur),
                                    Tail(comps))
                    ELSE ExistsFrom(fsys, Append(cur, c), Tail(comps))

exists(fsys, p) == ExistsFrom(fsys, <<>>, p)

\* str.startswith on the reference with "@" removed, for the names in use
StartsWithDotCursor(ref) ==
    ~ref.abs /\ ref.comps # <<>> /\ Head(ref.comps) \in {".cursor", ".cursorrules"}
StartsWithAgents(ref) ==
    ~ref.abs /\ ref.comps # <<>> /\ Head(ref.comps) \in {"agents", "agents_old"}

-----------------------------------------------------------------------------
(* Documents                                                               *)

\* A document is a sequence of tokens: text, a reference the pattern
\* @[\w\./-]+\.mdc matches, the delimiter "---", white space, or a marker.
Text(x) == [k |-> "text", s |-> x]
RefTok(r) == [k |-> "ref", ref |-> r]
Dash == [k |-> "dash"]
Ws == [k |-> "ws"]
Marker(type, ref, path) == [k |-> "marker", type |-> type, ref |-> ref, path |-> path]

\* the marker of load_file_content for an exception met in reading the
\* file: "[ERROR LOADING FILE: path - str(e)]"
ErrorMarker(path, error) ==
    [k |-> "marker", type |-> "ERROR LOADING FILE", ref |-> NoRef, path |-> path,
     error |-> error]

\* what is left of a marker around the references the pattern finds in it
MarkerPart(type, part, path) == [k |-> "part", type |-> type, part |-> part, path |-> path]

RECURSIVE LStrip(_)
LStrip(c) == IF c # <<>> /\ Head(c) = Ws THEN LStrip(Tail(c)) ELSE c

RECURSIVE RStrip(_)
RStrip(c) == IF c # <<>> /\ c[Len(c)] = Ws THEN RStrip(Front(c)) ELSE c

\* str.strip
Strip(c) == RStrip(LStrip(c))

\* content.split("---", 2): the parts around the first two delimiters
Split2(c) ==
    LET dashes == {i \in 1..Len(c) : c[i] = Dash}
    IN IF dashes = {} THEN <<c>>
       ELSE LET d1 == CHOOSE i \in dashes : \A j \in dashes : i <= j
                later == dashes \ {d1}
            IN IF later = {} THEN <<SubSeq(c, 1, d1 - 1), SubSeq(c, d1 + 1, Len(c))>>
               ELSE LET d2 == CHOOSE i \in later : \A j \in later : i <= j
                    IN <<SubSeq(c, 1, d1 - 1), SubSeq(c, d1 + 1, d2 - 1),
                         SubSeq(c, d2 + 1, Len(c))>>

\* The names of directories in use that hold an "@", and what follows the
\* "@" in each.
HasAt(c) == c \in {"u@x", "u@"}
AfterAt(c) == IF c = "u@x" THEN <<"x">> ELSE <<>>

PathHasAt(path) == \E i \in 1..Len(path) : HasAt(path[i])

\* The reference the pattern finds in the text of a path that ends in ".mdc":
\* it runs from the first "@" to the end of the path.
EmbeddedRef(path) ==
    LET i == CHOOSE j \in 1..Len(path) :
                 HasAt(path[j]) /\ \A h \in 1..(j - 1) : ~HasAt(path[h])
        rest == SubSeq(path, i + 1, Len(path))
    IN IF AfterAt(path[i]) = <<>> THEN Ref(TRUE, TRUE, rest)
       ELSE Ref(TRUE, FALSE, AfterAt(path[i]) \o rest)

\* A text as re.sub with the pattern sees it.  The markers of
\* load_file_content spell the path out, "[MISSING FILE: path]" and
\* "[ERROR LOADING FILE: path - maximum recursion depth exceeded ...]" once,
\* "[ERROR LOADING FILE: path - [Errno 21] Is a directory: 'path']" twice.
RECURSIVE Scan(_)
Scan(c) ==
    IF c = <<>> THEN <<>>
    ELSE LET tok == Head(c)
         IN (IF tok.k = "marker" /\ PathHasAt(tok.path)
             THEN IF tok.type = "MISSING FILE"
                  THEN <<MarkerPart(tok.type, "head", tok.path),
                         RefTok(EmbeddedRef(tok.path)),
                         MarkerPart(tok.type, "tail", tok.path)>>
                  ELSE IF tok.error = "RecursionError"
                  THEN <<MarkerPart(tok.type, "head", tok.path),
                         RefTok(EmbeddedRef(tok.path)),
                         MarkerPart(tok.type, "tail of RecursionError", tok.path)>>
                  ELSE <<MarkerPart(tok.type, "head", tok.path),
                         RefTok(EmbeddedRef(tok.path)),
                         MarkerPart(tok.type, "mid", tok.path),
                         RefTok(EmbeddedRef(tok.path)),
                         MarkerPart(tok.type, "tail", tok.path)>>
             ELSE <<tok>>) \o Scan(Tail(c))

-----------------------------------------------------------------------------
(* prompt_loader                                                           *)

Resolved(path) == [ok |-> TRUE, path |-> path]
ValueError == [ok |-> FALSE, path |-> <<>>]

\* CandidatePath trying the root before ".cursor" for the other references
CandidatePath_RootFirst(fsys, path_ref) ==
    IF path_ref.at
    THEN LET clean_ref == Ref(FALSE, path_ref.abs, path_ref.comps)
         IN IF StartsWithDotCursor(clean_ref) THEN Join(REPO_ROOT(fsys), clean_ref)
            ELSE IF StartsWithAgents(clean_ref)
                 THEN Join(REPO_ROOT(fsys) \o <<".cursor">>, clean_ref)
                 ELSE LET candidate_1 == Join(REPO_ROOT(fsys) \o <<".cursor">>, clean_ref)
                          candidate_2 == Join(REPO_ROOT(fsys), clean_ref)
                      IN IF exists(fsys, candidate_2) THEN candidate_2 ELSE candidate_1
    ELSE Join(REPO_ROOT(fsys), path_ref)

\* the candidate path resolve_path builds for a reference
CandidatePath(fsys, path_ref) ==
    IF path_ref.at
    THEN LET clean_ref == Ref(FALSE, path_ref.abs, path_ref.comps)
         IN IF StartsWithDotCursor(clean_ref) THEN Join(REPO_ROOT(fsys), clean_ref)
            ELSE IF StartsWithAgents(clean_ref)
                 THEN Join(REPO_ROOT(fsys) \o <<".cursor">>, clean_ref)
                 ELSE LET candidate_1 == Join(REPO_ROOT(fsys) \o <<".cursor">>, clean_ref)
                          candidate_2 == Join(REPO_ROOT(fsys), clean_ref)
                      IN IF exists(fsys, candidate_1) THEN candidate_1 ELSE candidate_2
    ELSE Join(REPO_ROOT(fsys), path_ref)

\* resolve_path: the absolute path, or the ValueError of the security check.
\* (candidate_path and abs_path are bound as the one element of a set, which
\* has them evaluated once.)
resolve_path(fsys, path_ref) ==
    CHOOSE r \in
        {IF commonpath(REPO_ROOT(fsys), abs_path) # REPO_ROOT(fsys) THEN ValueError
         ELSE Resolved(abs_path) :
            abs_path \in {abspath(candidate_path) :
                              candidate_path \in {CandidatePath(fsys, path_ref)}}} : TRUE

\* The frames of the interpreter (CPython 3.11), counted from a function
\* that load_agent_prompt calls.  One nested import takes four:
\* process_imports, re.sub, the pattern's sub, replacer.  resolve_path
\* reaches four frames, load_file_content reading a file six, and the first
\* re.sub of the process, which compiles the pattern, nine.
FRAMES_PER_IMPORT == 4
RESOLVE_FRAMES == 4
LOAD_FRAMES == 6
COMPILE_FRAMES == 9

\* at this depth of process_imports (0 in load_agent_prompt itself) the
\* interpreter lets resolve_path run, and lets load_file_content read a file
CanResolve(fsys, depth) == fsys.frames >= RESOLVE_FRAMES + FRAMES_PER_IMPORT * depth
CanLoad(fsys, depth) == fsys.frames >= LOAD_FRAMES + FRAMES_PER_IMPORT * depth

\* the interpreter lets the re.sub of load_agent_prompt's process_imports run
CanCompile(fsys) == fsys.compiled \/ fsys.frames >= COMPILE_FRAMES

\* load_file_content called at this depth: the text of a file without its
\* frontmatter, or a marker.  open() of a directory raises before it needs
\* the frames that reading a file takes; a RecursionError met while reading
\* is caught like every other exception.
load_file_content(fsys, path, depth) ==
    IF ~exists(fsys, path) THEN <<Marker("MISSING FILE", NoRef, path)>>
    ELSE LET file == Follow(fsys, path)
         IN IF file \notin DOMAIN fsys.files \/ fsys.files[file].kind # "file"
            THEN <<ErrorMarker(path, "IsADirectoryError")>>
            ELSE IF ~CanLoad(fsys, depth)
            THEN <<ErrorMarker(path, "RecursionError")>>
            ELSE LET content == fsys.files[file].content
                 IN IF content # <<>> /\ Head(content) = Dash
                    THEN LET parts == Split2(content)
                         IN IF Len(parts) >= 3 THEN Strip(parts[3]) ELSE content
                    ELSE content

\* replacer of process_imports at this depth for one matched reference, given
\* the caller's seen_files: the text put in its place, or the file to expand
\* in its place
Substitute(tokens, seen) == [recurse |-> FALSE, tokens |-> tokens, seen |-> seen,
                             path |-> <<>>]
Recurse(path, content, seen) == [recurse |-> TRUE, tokens |-> content, seen |-> seen,
                                 path |-> path]

replacer(fsys, seen_files, ref, depth) ==
    CHOOSE substitution \in
        {IF ~r.ok THEN Substitute(<<Marker("SECURITY BLOCK", ref, <<>>)>>, seen_files)
         ELSE IF r.path \in seen_files
              THEN Substitute(<<Marker("CIRCULAR REFERENCE", ref, <<>>)>>, seen_files)
              ELSE Recurse(r.path, load_file_content(fsys, r.path, depth),
                           seen_files \cup {r.path}) :
            r \in {resolve_path(fsys, ref)}} : TRUE

-----------------------------------------------------------------------------
(* The machines of the model                                               *)

\* where the repository may lie
Roots == {<<"repo">>, <<"u@x", "repo">>, <<"u@", "repo">>}

AGENT_A == "a"
Profile(root, agent) == root \o <<".cursor", "agents", agent, "system_prompt.mdc">>
P_X(root) == root \o <<".cursor", "agents", "common", "x.mdc">>
P_Y1(root) == root \o <<".cursor", "y.mdc">>
P_Y2(root) == root \o <<"y.mdc">>
P_MODULE(root) == root \o <<"src", "utils", "prompt_loader.py">>
P_SECRET == <<"etc", "secret.mdc">>
P_SIBLING == <<"repo2", "s.mdc">>

R_X == Ref(TRUE, FALSE, <<"agents", "common", "x.mdc">>)
R_Y == Ref(TRUE, FALSE, <<"y.mdc">>)
R_SELF == Ref(TRUE, FALSE, <<"agents", AGENT_A, "system_prompt.mdc">>)
R_MISSING == Ref(TRUE, FALSE, <<"agents", "common", "missing.mdc">>)
R_UP == Ref(TRUE, FALSE, <<"..", "..", "..", "etc", "secret.mdc">>)
R_ABS == Ref(TRUE, TRUE, <<"etc", "secret.mdc">>)
R_SIBLING == Ref(TRUE, FALSE, <<"..", "..", "..", "repo2", "s.mdc">>)
R_CURSOR_UP == Ref(TRUE, FALSE, <<".cursor", "..", "..", "..", "etc", "secret.mdc">>)
R_AGENTS_UP == Ref(TRUE, FALSE, <<"agents", "..", "..", "..", "..", "etc", "secret.mdc">>)
\* "@//repo/.cursor/y.mdc"
R_SLASHES == Ref(TRUE, TRUE, <<"", "repo", ".cursor", "y.mdc">>)

SECRET == Text("secret")

\* what lies outside the repository
OutsideFiles ==
    [p \in {P_SECRET, P_SIBLING} |-> File(<<SECRET>>)]

ProfileNodes ==
    {File(<<Text("a1"), RefTok(R_X), RefTok(R_Y)>>),
     File(<<RefTok(R_SELF), Text("a2")>>),
     File(<<RefTok(R_UP), RefTok(R_X), RefTok(R_ABS)>>),
     File(<<RefTok(R_MISSING), RefTok(R_X), RefTok(R_SIBLING)>>),
     File(<<Dash, RefTok(R_UP), Dash, Ws, RefTok(R_X), RefTok(R_X), Ws>>),
     File(<<Dash, RefTok(R_X)>>),
     File(<<RefTok(R_CURSOR_UP), RefTok(R_AGENTS_UP), RefTok(R_Y)>>),
     File(<<RefTok(R_SLASHES), Text("t"), RefTok(R_Y)>>),
     \* "---", a line "t---u", "---", and the body "b"
     File(<<Dash, Ws, Text("t"), Dash, Text("u"), Ws, Dash, Ws, Text("b")>>)}

XNodes ==
    {Absent, Directory,
     File(<<Text("x")>>),
     File(<<RefTok(R_Y), Text("x")>>),
     File(<<RefTok(R_SELF)>>),
     File(<<RefTok(R_X), Text("x")>>),
     File(<<RefTok(R_MISSING), RefTok(R_UP), Text("x")>>)}

Y1Nodes == {Absent, File(<<Text("y1")>>), File(<<RefTok(R_X)>>), Link(P_SECRET)}

Y2Nodes == {Absent, File(<<Text("y2")>>), File(<<RefTok(R_SELF), RefTok(R_Y)>>)}

\* the frames of the machines of the model: those of a process that has set
\* a low recursion limit, or calls load_agent_prompt from deep down
FramesLeft == 30

\* the machine with the repository at root and these nodes at its four paths
FileSystem(root, a, x, y1, y2) ==
    LET inside == [p \in {Profile(root, AGENT_A), P_X(root), P_Y1(root), P_Y2(root)} |->
                      IF p = Profile(root, AGENT_A) THEN a
                      ELSE IF p = P_X(root) THEN x
                      ELSE IF p = P_Y1(root) THEN y1 ELSE y2]
        present == {p \in DOMAIN inside : inside[p] # Absent}
    IN Machine(root,
               [p \in present \cup DOMAIN OutsideFiles \cup {P_MODULE(root)} |->
                   IF p \in present THEN inside[p]
                   ELSE IF p = P_MODULE(root) THEN File(<<Text("module")>>)
                   ELSE OutsideFiles[p]],
               FramesLeft, FALSE)

\* the machines, in a process that has loaded a prompt before or not
FileSystems ==
    {[FileSystem(root, a, x, y1, y2) EXCEPT !.compiled = compiled] :
        root \in Roots, a \in ProfileNodes, x \in XNodes, y1 \in Y1Nodes, y2 \in Y2Nodes,
        compiled \in BOOLEAN}

NoFiles == Machine(<<"repo">>, [p \in {} |-> Absent], FramesLeft, FALSE)

\* agent names a caller can ask for, as path references
AgentNames ==
    {Ref(FALSE, FALSE, <<AGENT_A>>),
     Ref(FALSE, FALSE, <<"nobody">>),
     Ref(FALSE, FALSE, <<"..", "..", "..", "..", "etc">>),
     Ref(FALSE, TRUE, <<"etc">>)}

-----------------------------------------------------------------------------
(* load_agent_prompt, one step of process_imports at a time                *)

Frame(path, rest, seen, out) == [path |-> path, rest |-> rest, seen |-> seen, out |-> out]

\* a call of process_imports begins: re.sub is to go through the text
process_imports(path, content, seen_files) == Frame(path, Scan(content), seen_files, <<>>)

NoResult == [kind |-> "none"]
Returned(tokens) == [kind |-> "text", tokens |-> tokens]
Raise(error) == [kind |-> "raised", error |-> error]

LoaderIdle ==
    /\ lpc = "idle"
    /\ stack = <<>>
    /\ result = NoResult

\* load_agent_prompt up to the re.sub of its call of process_imports, which
\* compiles the pattern when the process has not done so before
LoadAgentPrompt(agent_name) ==
    /\ lpc = "idle"
    /\ LET base_path == Join(REPO_ROOT(fs) \o <<".cursor", "agents">>, agent_name)
                           \o <<"system_prompt.mdc">>
       IN \E r \in {resolve_path(fs, Ref(FALSE, FALSE,
                                     relpath(abspath(base_path), REPO_ROOT(fs))))} :
          IF ~CanResolve(fs, 0)
          THEN /\ lpc' = "raised"
               /\ result' = Raise("RecursionError")
               /\ UNCHANGED <<stack, fs>>
          ELSE IF ~r.ok
          THEN /\ lpc' = "raised"
               /\ result' = Raise("ValueError")
               /\ UNCHANGED <<stack, fs>>
          ELSE IF ~exists(fs, r.path)
          THEN /\ lpc' = "raised"
               /\ result' = Raise("FileNotFoundError")
               /\ UNCHANGED <<stack, fs>>
          ELSE IF ~CanCompile(fs)
          THEN /\ lpc' = "raised"
               /\ result' = Raise("RecursionError")
               /\ UNCHANGED <<stack, fs>>
          ELSE /\ lpc' = "expanding"
               /\ stack' = <<process_imports(r.path,
                                              load_file_content(fs, r.path, 0), {})>>
               /\ result' = result
               /\ fs' = [fs EXCEPT !.compiled = TRUE]
    /\ UNCHANGED <<routerVars, engineVars, serverVars>>

Top == stack[Len(stack)]

\* the stack with its innermost frame replaced
WithTop(f) == [stack EXCEPT ![Len(stack)] = f]

\* re.sub meets the next token of the text of the innermost call: a token
\* that is no reference passes through, a reference goes to replacer, and a
\* replacer too deep for resolve_path ends the whole in RecursionError
ExpandToken ==
    /\ lpc = "expanding"
    /\ Top.rest # <<>>
    /\ LET tok == Head(Top.rest)
       IN IF tok.k # "ref"
          THEN /\ stack' = WithTop([Top EXCEPT !.rest = Tail(@), !.out = Append(@, tok)])
               /\ UNCHANGED <<lpc, result>>
          ELSE IF ~CanResolve(fs, Len(stack))
               THEN /\ lpc' = "raised"
                    /\ result' = Raise("RecursionError")
                    /\ stack' = <<>>
               ELSE \E sub \in {replacer(fs, Top.seen, tok.ref, Len(stack))} :
                       IF ~sub.recurse
                       THEN /\ stack' = WithTop([Top EXCEPT !.rest = Tail(@),
                                                            !.out = @ \o sub.tokens,
                                                            !.seen = sub.seen])
                            /\ UNCHANGED <<lpc, result>>
                       ELSE /\ stack' = Append(WithTop([Top EXCEPT !.rest = Tail(@),
                                                                   !.seen = sub.seen]),
                                               process_imports(sub.path, sub.tokens,
                                                               sub.seen))
                            /\ UNCHANGED <<lpc, result>>
    /\ UNCHANGED <<fs, routerVars, engineVars, serverVars>>

\* re.sub is through the text of the innermost call: process_imports returns
ReturnText ==
    /\ lpc = "expanding"
    /\ Top.rest = <<>>
    /\ IF Len(stack) = 1
       THEN /\ lpc' = "done"
            /\ result' = Returned(Top.out)
            /\ stack' = <<>>
       ELSE /\ stack' = [Front(stack) EXCEPT ![Len(stack) - 1].out = @ \o Top.out]
            /\ UNCHANGED <<lpc, result>>
    /\ UNCHANGED <<fs, routerVars, engineVars, serverVars>>

RouterIdle ==
    /\ available_agents = {UNIVERSAL}
    /\ collection = EmptyCollection
    /\ last = [op |-> "none"]
    /\ ret = None

\* no retriever is constructed and no call of route is in progress
EngineIdle ==
    /\ retriever = None
    /\ tasks = <<>>

\* no detector is constructed and the server is not started
ServerIdle ==
    /\ detector = None
    /\ SESSION_CACHE = <<>>
    /\ world = None

InitLoader ==
    /\ fs \in FileSystems
    /\ LoaderIdle
    /\ ServerIdle
    /\ RouterIdle
    /\ EngineIdle

NextLoader ==
    \/ \E a \in AgentNames : LoadAgentPrompt(a)
    \/ ExpandToken
    \/ ReturnText

SpecLoader == InitLoader /\ [][NextLoader]_vars

\* a call that has begun runs on until it returns or raises
SpecLoaderFair == SpecLoader /\ WF_vars(ExpandToken) /\ WF_vars(ReturnText)

-----------------------------------------------------------------------------
(* SemanticRouter                                                          *)

\* the directory listings the scan can meet: NoDirectory when the directory
\* is absent, else the entries with what os.scandir and os.path.exists say.
\* scanned: the entries the loop got through, in the order os.scandir gave
\* them, before an exception ended it (raises), and all of them otherwise.
NoDirectory == [exists |-> FALSE, raises |-> FALSE, entries |-> {}, scanned |-> {}]
Listing(entries) ==
    [exists |-> TRUE, raises |-> FALSE, entries |-> entries, scanned |-> entries]
\* the scan raises, at os.scandir or at an entry, with these entries behind it
Interrupted(entries, scanned) ==
    [exists |-> TRUE, raises |-> TRUE, entries |-> entries, scanned |-> scanned]
Entry(name, is_dir, has_prompt) ==
    [name |-> name, is_dir |-> is_dir, has_prompt |-> has_prompt]

\* the directory .cursor/agents the router is constructed over
AGENTS_DIR ==
    Listing({Entry(SECURITY, TRUE, TRUE), Entry(UNIVERSAL, TRUE, TRUE),
             Entry("common", TRUE, TRUE), Entry(".git", TRUE, TRUE),
             Entry("README.md", FALSE, FALSE)})

\* the names of the listings that start with "."
HiddenNames == {".git"}

\* _scan_agents: the names, which the code returns sorted
_scan_agents(dir) ==
    IF ~dir.exists THEN {}
    ELSE LET agents == {x.name : x \in {y \in dir.scanned :
                                /\ y.is_dir
                                /\ y.name \notin HiddenNames
                                /\ y.name # "common"
                                /\ y.has_prompt}}
         IN IF agents = {} THEN {UNIVERSAL} ELSE agents

HISTORY_TAIL == 200

LastChars(text, k) ==
    IF Len(text) <= k THEN text ELSE SubSeq(text, Len(text) - k + 1, Len(text))

\* SemanticQuery with the test for an empty history left out
SemanticQuery_AlwaysJoined(query, history_text) ==
    LastChars(history_text, HISTORY_TAIL) \o <<NL>> \o query

\* the string lookup_cache searches the store for
SemanticQuery(query, history_text) ==
    IF history_text # <<>>
    THEN LastChars(history_text, HISTORY_TAIL) \o <<NL>> \o query
    ELSE query

\* DecisionFromResults taking the distance for a similarity
DecisionFromResults_Similarity(results) ==
    IF results.ids # <<>> /\ results.distances # <<>> /\ Len(results.distances[1]) > 0
    THEN LET distance == results.distances[1][1]
         IN IF FLess(SIMILARITY_THRESHOLD, distance)
            THEN RouterDecision(results.metadatas[1][1].target_agent, 100,
                                Reason("Cached result", distance), TRUE)
            ELSE None
    ELSE None

\* what lookup_cache makes of the store's answer
DecisionFromResults(results) ==
    IF results.ids # <<>> /\ results.distances # <<>> /\ Len(results.distances[1]) > 0
    THEN LET distance == results.distances[1][1]
         IN IF FLess(distance, FSub(FOne, SIMILARITY_THRESHOLD))
            THEN RouterDecision(results.metadatas[1][1].target_agent, 100,
                                Reason("Cached result", distance), TRUE)
            ELSE None
    ELSE None

\* lookup_cache without the try/except around the store's query
lookup_cache_Unguarded(coll, query, history_text, store_fails) ==
    IF store_fails THEN {Raised("chromadb")}
    ELSE {DecisionFromResults(r) :
            r \in CollectionQuery(coll, SemanticQuery(query, history_text))}

\* lookup_cache: the values it can return; store_fails: the query raises
\* (an exception that left it would be the value Raised)
lookup_cache(coll, query, history_text, store_fails) ==
    IF store_fails THEN {None}
    ELSE {DecisionFromResults(r) :
            r \in CollectionQuery(coll, SemanticQuery(query, history_text))}

\* update_cache keeping no entry but the one it writes
update_cache_Replacing(coll, query, agent_name, reasoning, request_id, store_fails) ==
    IF store_fails THEN coll
    ELSE CollectionAdd(EmptyCollection, request_id, query,
                       [target_agent |-> agent_name, reasoning |-> reasoning,
                        timestamp |-> "1.0"])

\* update_cache: the collection afterwards; store_fails: the add raises
update_cache(coll, query, agent_name, reasoning, request_id, store_fails) ==
    IF store_fails THEN coll
    ELSE CollectionAdd(coll, request_id, query,
                       [target_agent |-> agent_name, reasoning |-> reasoning,
                        timestamp |-> "1.0"])

\* _get_llm_decision catching only the JSON decoding error
_get_llm_decision_JsonOnly(response) ==
    CASE response.kind = "init_error" ->
            RouterDecision(UNIVERSAL, 0,
                           Reason("OpenAI API Key missing or invalid", NoDistance), FALSE)
      [] response.kind = "not_json" ->
            RouterDecision(UNIVERSAL, 0, Reason("Error in routing", NoDistance), FALSE)
      [] response.kind \in {"transport_error", "bad_shape"} -> Raised(response.kind)
      [] OTHER ->
            RouterDecision(response.target_agent, response.confidence,
                           Reason(response.reasoning, NoDistance), FALSE)

\* _get_llm_decision: the decision made of the classifier's response
_get_llm_decision(response) ==
    CASE response.kind = "init_error" ->
            RouterDecision(UNIVERSAL, 0,
                           Reason("OpenAI API Key missing or invalid", NoDistance), FALSE)
      [] response.kind \in {"transport_error", "not_json", "bad_shape"} ->
            RouterDecision(UNIVERSAL, 0, Reason("Error in routing", NoDistance), FALSE)
      [] OTHER ->
            RouterDecision(response.target_agent, response.confidence,
                           Reason(response.reasoning, NoDistance), FALSE)

CONFIDENCE_GATE == 80

\* the write-back gate with >= for >
ShouldCache_AtLeast(decision) == decision.confidence >= CONFIDENCE_GATE

\* route, step 3: whether the classifier's decision is written back
ShouldCache(decision) == decision.confidence > CONFIDENCE_GATE

-----------------------------------------------------------------------------
(* The router's operations                                                 *)

\* A call that has returned.  setting: "beside" when another call was in
\* flight while it ran, and else "empty" or "alone", as the collection was
\* empty or not when it began.  wrote: the call changed the collection.
Call(op, query, history_text, response, lookup_fails, write_fails, setting, wrote) ==
    [op |-> op, query |-> query, history |-> history_text, response |-> response,
     lookup_fails |-> lookup_fails, write_fails |-> write_fails,
     setting |-> setting, wrote |-> wrote]

NoCall == Call("none", <<>>, <<>>, NotCalled, FALSE, FALSE, "empty", FALSE)

\* how many calls of the router can be in flight at once
MaxCalls == 2
Slots == 1..MaxCalls

\* A call in flight: a coroutine that gives way at each await of route, before
\* the store's query (router.py:207), before the classifier's answer (:212)
\* and before the store's add (:216).  op: what was called, route,
\* lookup_cache or process_request, which awaits route.  job: the job the
\* call has in the executor.  write_fails, wrote: how its add went.
Coroutine(op, pc, query, history_text, response, lookup_fails, setting) ==
    [op |-> op, pc |-> pc, query |-> query, history |-> history_text,
     response |-> response, lookup_fails |-> lookup_fails, setting |-> setting,
     job |-> Pending, write_fails |-> FALSE, wrote |-> FALSE]

NotRunning == Coroutine("none", "idle", <<>>, <<>>, NotCalled, FALSE, "empty")

InFlight == {s \in Slots : tasks[s].pc # "idle"}

\* a call takes the first slot that is free
FreeSlot(slot) == slot \notin InFlight /\ \A s \in Slots : s < slot => s \in InFlight

\* the calls in flight once a new one has begun: it awaits the lookup, and
\* the calls in flight run beside it
WithCall(slot, op, query, history_text) ==
    [s \in Slots |->
        IF s = slot
        THEN Coroutine(op, "lookup", query, history_text, NotCalled, FALSE,
                       IF InFlight # {} THEN "beside"
                       ELSE IF DOMAIN collection = {} THEN "empty" ELSE "alone")
        ELSE IF s \in InFlight THEN [tasks[s] EXCEPT !.setting = "beside"]
        ELSE tasks[s]]

\* the step is one in which a call returns
CallReturns == \E s \in Slots : tasks[s].pc # "idle" /\ tasks'[s].pc = "idle"

\* the step is the one in which the executor runs the add of update_cache
\* for the call in the slot
AddRuns(slot) ==
    /\ tasks[slot].pc = "write" /\ tasks[slot].job = Pending
    /\ tasks'[slot].job # Pending

-----------------------------------------------------------------------------
(* Claims about the router, checked under SpecRouter                       *)

IsDecision(r) == r.kind = "decision"

\* the ids of the entries nearest to a text
NearestIds(coll, text) ==
    {i \in DOMAIN coll :
        \A k \in DOMAIN coll :
            FLeq(Distance(coll[i].document, text), Distance(coll[k].document, text))}

\* a route call with empty history that met no store error and ran with no
\* other call beside it
CleanRoute(c) ==
    /\ c.op = "route" /\ c.history = NoHistory
    /\ ~c.lookup_fails /\ ~c.write_fails
    /\ c.setting # "beside"

\* the classifier answered the call with a well-formed decision of this confidence
Answered(c, conf) == c.response.kind = "object" /\ c.response.confidence = conf

\* C1, first request: from an empty cache, a request with empty history that
\* the classifier answers with confidence 0.95 is returned as the classifier
\* gave it, with is_cached = false, and the cache then holds one entry, for
\* that query and agent.
C1_First ==
    (CleanRoute(last) /\ last.setting = "empty" /\ Answered(last, 95)) =>
        /\ ret = RouterDecision(last.response.target_agent, 95,
                                Reason(last.response.reasoning, NoDistance), FALSE)
        /\ Cardinality(DOMAIN collection) = 1
        /\ \A i \in DOMAIN collection :
              /\ collection[i].document = last.query
              /\ collection[i].metadata.target_agent = last.response.target_agent

\* C1, the request repeated: it is answered from the cache with the same
\* agent, the classifier is not called and no entry is added.
C1_Repeat ==
    (/\ CleanRoute(last) /\ last.setting = "empty" /\ Answered(last, 95)
     /\ CallReturns
     /\ CleanRoute(last') /\ last'.query = last.query) =>
        /\ IsDecision(ret') /\ ret'.is_cached
        /\ ret'.target_agent = ret.target_agent
        /\ last'.response = NotCalled
        /\ ~last'.wrote
        /\ collection' = collection

\* C1: starting from an empty router cache, route(Q) with empty history that
\* the classifier answers with confidence 0.95 returns that decision with
\* is_cached = false and writes one cache entry; routing the same query again
\* returns is_cached = true with the same target_agent, without calling the
\* classifier and without adding an entry.
C1_EmptyCacheThenRepeat == [][(CallReturns => C1_First') /\ C1_Repeat]_vars

\* C1's case: the repeated query was answered from the single entry the first
\* request wrote.
C1_Witness ==
    /\ CleanRoute(last) /\ last.query = Q_SQL
    /\ IsDecision(ret) /\ ret.is_cached /\ ret.target_agent = SECURITY
    /\ last.response = NotCalled
    /\ Cardinality(DOMAIN collection) = 1

\* what C2 says of a call of lookup_cache that has just returned
C2_AtReturn ==
    (last.op = "lookup" /\ ~last.lookup_fails) =>
        LET text == SemanticQuery(last.query, last.history)
            near == NearestIds(collection, text)
        IN /\ (ret # None) <=>
                  \E i \in near : FLess(Distance(collection[i].document, text), Real005)
           /\ (ret # None) =>
                /\ IsDecision(ret) /\ ret.is_cached /\ ret.confidence = 100
                /\ \E i \in near : ret.target_agent = collection[i].metadata.target_agent

\* C2: lookup_cache returns a decision exactly when the cache has a nearest
\* neighbour of the search string at a distance strictly below 0.05; the
\* decision has is_cached = true, confidence 1.0 and that neighbour's
\* target_agent; a nearest distance of 0.05 or more, or an empty cache, gives
\* None.
\* (Seen at each step in which a call returns.)
C2_HitIffBelow005 == [][CallReturns => C2_AtReturn']_vars

\* C3: the cache gains an entry only by a route call whose classifier decision
\* had confidence above 0.8, and a decision with confidence 0.8 or less is
\* returned to the caller and not written.  (The entry is gained in the step
\* in which the executor runs the call's add; what the call returns is seen
\* in the step in which it returns.)
C3_Step ==
    /\ (collection' # collection) =>
          \E slot \in Slots :
             /\ AddRuns(slot)
             /\ tasks[slot].op = "route" /\ tasks[slot].response.kind = "object"
             /\ tasks[slot].response.confidence > 80
             /\ \E i \in DOMAIN collection' \ DOMAIN collection :
                   /\ DOMAIN collection' = DOMAIN collection \cup {i}
                   /\ collection'[i].document = tasks[slot].query
                   /\ collection'[i].metadata.target_agent =
                          tasks[slot].response.target_agent
             /\ \A i \in DOMAIN collection : collection'[i] = collection[i]
    /\ (CallReturns /\ last'.op = "route" /\ last'.response.kind = "object"
        /\ last'.response.confidence <= 80) =>
          /\ ~last'.wrote /\ collection' = collection
          /\ IsDecision(ret') /\ ~ret'.is_cached
          /\ ret'.target_agent = last'.response.target_agent
          /\ ret'.confidence = last'.response.confidence
    /\ (CallReturns /\ last'.op = "route" /\ IsDecision(ret') /\ ~ret'.is_cached
        /\ ret'.confidence <= 80) => (~last'.wrote /\ collection' = collection)

C3_WriteBackGate == [][C3_Step]_vars

\* C3's case: a decision of confidence exactly 0.8 came back and the query it
\* answered is not in the cache.
C3_Witness ==
    /\ CleanRoute(last) /\ Answered(last, 80)
    /\ IsDecision(ret) /\ ret.confidence = 80
    /\ \A i \in DOMAIN collection : collection[i].document # last.query

\* the two query texts are nearer than 0.05
Paraphrases(q1, q2) == FLess(Distance(q1, q2), Real005)

\* C4 as stated: for queries Q1, Q2 whose embeddings are nearer than 0.05,
\* routing Q1 and then Q2 gives is_cached = true for Q2 with the target_agent
\* Q1 was resolved to.
C4_Original_Step ==
    (/\ CleanRoute(last) /\ IsDecision(ret)
     /\ CallReturns
     /\ CleanRoute(last') /\ Paraphrases(last.query, last'.query)) =>
        /\ IsDecision(ret') /\ ret'.is_cached
        /\ ret'.target_agent = ret.target_agent

C4_Original == [][C4_Original_Step]_vars

\* the entries the last call can have written
WrittenByLast(coll) ==
    {i \in DOMAIN coll :
        /\ coll[i].document = last.query
        /\ coll[i].metadata.target_agent = ret.target_agent}

\* C4 amended: when routing Q1 ended in a classifier decision that was
\* written to the cache, routing next a Q2 nearer than 0.05 to Q1 gives
\* is_cached = true with the target_agent of an entry nearest to Q2, which is
\* Q1's target_agent when every entry nearest to Q2 is one Q1's request can
\* have written.
C4_Amended_Step ==
    (/\ CleanRoute(last) /\ IsDecision(ret) /\ last.wrote
     /\ CallReturns
     /\ CleanRoute(last') /\ Paraphrases(last.query, last'.query)) =>
        /\ IsDecision(ret') /\ ret'.is_cached
        /\ last'.response = NotCalled
        /\ \E i \in NearestIds(collection, last'.query) :
              ret'.target_agent = collection[i].metadata.target_agent
        /\ (NearestIds(collection, last'.query) \subseteq WrittenByLast(collection))
              => ret'.target_agent = ret.target_agent

C4_WrittenThenParaphrase == [][C4_Amended_Step]_vars

\* C4's case: a paraphrase of the query routed and written just before was
\* answered from the cache.
C4_Witness ==
    /\ CleanRoute(last) /\ last.query = Q_SQL_A /\ last.response = NotCalled
    /\ IsDecision(ret) /\ ret.is_cached /\ ret.reasoning.distance = D_Near
    /\ \E i \in DOMAIN collection : collection[i].document = Q_SQL

\* C5: every entry of the router cache has a target_agent that is one of the
\* router's available_agents.
C5_EntriesNameKnownAgents ==
    \A i \in DOMAIN collection :
        collection[i].metadata.target_agent \in available_agents

\* C6: when the classifier call fails in transport, returns text that is not
\* JSON or an object that is not of the decision shape, route returns
\* universal_agent with confidence 0.0 and is_cached = false, raises nothing
\* and writes no entry.
C6_ClassifierFailureDegrades ==
    (last.op = "route"
     /\ last.response.kind \in {"transport_error", "not_json", "bad_shape"}) =>
        /\ IsDecision(ret)
        /\ ret.target_agent = "universal_agent"
        /\ ret.confidence = 0
        /\ ~ret.is_cached
        /\ ~last.wrote

\* C6's case: a classifier answer of the wrong shape ended in the degraded
\* decision.
C6_Witness ==
    /\ last.op = "route" /\ last.response.kind = "bad_shape"
    /\ IsDecision(ret) /\ ret.target_agent = "universal_agent"

\* C7: a store error in the lookup counts as a miss and a store error in the
\* write as no write: route raises nothing, returns the classifier's decision
\* as the classifier gave it, and a failed write leaves the cache as it was.
C7_Step ==
    /\ (last'.op = "route" /\ (last'.lookup_fails \/ last'.write_fails)) =>
          /\ IsDecision(ret') /\ ~ret'.is_cached
          /\ last'.response # NotCalled
          /\ last'.response.kind = "object" =>
                /\ ret'.target_agent = last'.response.target_agent
                /\ ret'.confidence = last'.response.confidence
          /\ last'.write_fails => ~last'.wrote
    /\ \A slot \in Slots :
          (AddRuns(slot) /\ tasks'[slot].write_fails) => collection' = collection

C7_StoreErrorsAreAbsorbed == [][C7_Step]_vars

\* C7's cases: a lookup that failed over a cache holding the query, and a
\* write that failed.
C7_Witness ==
    /\ last.op = "route" /\ last.lookup_fails /\ last.write_fails
    /\ last.response.kind = "object" /\ last.response.confidence = 95
    /\ IsDecision(ret) /\ ret.confidence = 95
    /\ \E i \in DOMAIN collection : collection[i].document = last.query

-----------------------------------------------------------------------------
(* Claims about the prompt resolver                                        *)

Tokens(text) == {text[i] : i \in 1..Len(text)}

\* the path names a place at or below the root (a path with two leading
\* slashes names what the path with one does)
Inside(fsys, p) ==
    IsPrefix(REPO_ROOT(fsys), IF p # <<>> /\ Head(p) = "" THEN Tail(p) ELSE p)

\* the references of the model that are written to leave the repository
EscapingRefs == {R_UP, R_ABS, R_SIBLING, R_CURSOR_UP, R_AGENTS_UP}
RefsInUse == EscapingRefs \cup {R_X, R_Y, R_SELF, R_MISSING, R_SLASHES}

\* the text of the profile of AGENT_A as load_agent_prompt hands it on
ProfileText == load_file_content(fs, Profile(REPO_ROOT(fs), AGENT_A), 0)

\* resolve_path gives a path at or below the root or the security error,
\* and so every file under expansion lies at or below the root
C8_PathsInside ==
    /\ \A ref \in RefsInUse :
          LET r == resolve_path(fs, ref)
          IN r.ok => Inside(fs, r.path)
    /\ \A i \in 1..Len(stack) : Inside(fs, stack[i].path)

\* nothing of a file outside the repository is in a text being built or
\* returned
C8_NoOutsideContent ==
    /\ \A i \in 1..Len(stack) : SECRET \notin Tokens(stack[i].rest) \cup Tokens(stack[i].out)
    /\ result.kind = "text" => SECRET \notin Tokens(result.tokens)

\* a reference of the profile that escapes the root is in the returned text
\* as its SECURITY BLOCK marker
C8_EscapeIsBlocked ==
    lpc = "done" =>
        \A tok \in Tokens(ProfileText) :
            (tok.k = "ref" /\ tok.ref \in EscapingRefs)
                => Marker("SECURITY BLOCK", tok.ref, <<>>) \in Tokens(result.tokens)

\* C8: resolve_path returns a path at or below REPO_ROOT or raises the
\* security error; so no expansion returns content of a file outside
\* REPO_ROOT, and a reference that escapes the root is replaced inline by a
\* SECURITY BLOCK marker.
C8_SandboxHolds ==
    /\ C8_PathsInside
    /\ C8_NoOutsideContent
    /\ C8_EscapeIsBlocked

\* re.sub of the innermost call is at a reference whose path was seen
AtSeenReference ==
    /\ lpc = "expanding"
    /\ Top.rest # <<>>
    /\ Head(Top.rest).k = "ref"
    /\ LET r == resolve_path(fs, Head(Top.rest).ref)
       IN r.ok /\ r.path \in Top.seen

\* such a reference gets its CIRCULAR REFERENCE marker and no call is made
C9_Step ==
    AtSeenReference =>
        /\ Len(stack') = Len(stack)
        /\ stack'[Len(stack)].out =
               Append(Top.out, Marker("CIRCULAR REFERENCE", Head(Top.rest).ref, <<>>))

\* C9: the expansion of a document ends with its text whatever the files
\* are, cycles and a document that names itself included; a reference to a
\* path in the visited set is replaced by a CIRCULAR REFERENCE marker and
\* the file is not loaded again.
C9_ExpansionTerminates ==
    /\ (lpc = "expanding") ~> (lpc = "done")
    /\ [][C9_Step]_vars

\* the profile names a file that is not there
NamesMissingFile ==
    /\ RefTok(R_MISSING) \in Tokens(ProfileText)
    /\ resolve_path(fs, R_MISSING).ok
    /\ ~exists(fs, resolve_path(fs, R_MISSING).path)

\* the returned text has the marker of the missing file and what the other
\* references of the profile stand for
C10_Done ==
    (lpc = "done" /\ NamesMissingFile) =>
        /\ Marker("MISSING FILE", NoRef, resolve_path(fs, R_MISSING).path)
               \in Tokens(result.tokens)
        /\ (RefTok(R_SIBLING) \in Tokens(ProfileText))
               => Marker("SECURITY BLOCK", R_SIBLING, <<>>) \in Tokens(result.tokens)
        /\ (/\ RefTok(R_X) \in Tokens(ProfileText)
            /\ P_X(REPO_ROOT(fs)) \in DOMAIN fs.files
            /\ fs.files[P_X(REPO_ROOT(fs))] = File(<<Text("x")>>))
               => Text("x") \in Tokens(result.tokens)

\* an expansion that has begun does not end in an exception
C10_Step == (lpc = "expanding") => (lpc' # "raised")

\* C10: a nested reference to a file that does not exist is replaced inline
\* by a MISSING FILE marker, every other reference of the same document is
\* still expanded, and the expansion as a whole does not raise.
C10_MissingFileIsInline ==
    /\ []C10_Done
    /\ [][C10_Step]_vars

\* the path load_agent_prompt resolves for an agent name
ProfileOf(fsys, agent_name) ==
    resolve_path(fsys, Ref(FALSE, FALSE,
        relpath(abspath(Join(REPO_ROOT(fsys) \o <<".cursor", "agents">>, agent_name)
                            \o <<"system_prompt.mdc">>),
                REPO_ROOT(fsys))))

\* what is raised is one of the two errors of the top-level profile
C11_Raised ==
    result.kind = "raised" => result.error \in {"FileNotFoundError", "ValueError"}

\* and it is raised by the call itself, for a name whose profile is absent or
\* resolves outside the root
C11_Step ==
    (lpc' = "raised" /\ lpc # "raised") =>
        /\ lpc = "idle"
        /\ \E a \in AgentNames :
              \/ result'.error = "ValueError" /\ ~ProfileOf(fs, a).ok
              \/ /\ result'.error = "FileNotFoundError"
                 /\ ProfileOf(fs, a).ok /\ ~exists(fs, ProfileOf(fs, a).path)

\* C11: load_agent_prompt raises only because of the top-level profile, a
\* not-found error when the profile file is absent and an invalid-name error
\* when the agent name resolves outside the root; missing files, violations of
\* the root and cycles met in nested references become markers and never
\* raise.
C11_OnlyTopLevelRaises ==
    /\ []C11_Raised
    /\ [][C11_Step]_vars

-----------------------------------------------------------------------------
(* SkillRetriever and ImplantRetriever                                     *)

\* RELEVANCE_THRESHOLD as skills.py and as implants.py write it
RELEVANCE_THRESHOLD(cls) ==
    IF cls = "SkillRetriever"
    THEN F(450000000, 11)         \* 0.45: 0.450000000000000011...
    ELSE F(729999999, 999999982)  \* 0.73: 0.729999999999999982...

\* a dict yaml.safe_load returns, as far as the indexers read it: the value
\* under "description" ("" when the key is missing, as frontmatter.get has
\* it), and whether that value is None
Dict(description, is_none) ==
    [kind |-> "dict", description |-> description, is_none |-> is_none]

\* yaml.safe_load of what stands between the delimiters: nothing loads as
\* None, a mapping as a dict (a key without a value has the value None), a
\* scalar as a str, and "{" does not load
yaml_safe_load(part) ==
    LET lines == SelectSeq(part, LAMBDA t : t # Ws)
    IN CASE lines = <<>> -> None
         [] Len(lines) = 2 /\ lines[1] = Text("description:") ->
                Dict(<<lines[2].s>>, FALSE)
         [] lines = <<Text("description:")>> -> Dict(None, TRUE)
         [] lines = <<Text("{")>> -> Raised("YAMLError")
         [] OTHER -> [kind |-> "str"]

\* The body of the loop of index_skills and index_implants over one file:
\* the entry to store, or None when the file is skipped.  A file name is its
\* stem and its extension, <<"a", ".mdc">>, and a file's content a sequence
\* of tokens.
FileEntry(dir_path, filename, file) ==
    IF file.kind # "file" THEN None  \* open raises
    ELSE LET content == file.content
             \* the characters of a sequence of tokens
             TextOf(c) ==
                 [i \in 1..Len(c) |->
                     IF c[i] = Ws THEN NL ELSE IF c[i] = Dash THEN "---" ELSE c[i].s]
             parts == Split2(content)
             fenced == content # <<>> /\ Head(content) = Dash /\ Len(parts) >= 3
             loaded == IF fenced THEN yaml_safe_load(parts[2])
                       ELSE Dict(<<>>, FALSE)
             frontmatter == IF loaded.kind = "raised" THEN Dict(<<>>, FALSE)
                            ELSE loaded
             body == IF fenced /\ loaded.kind # "raised" THEN Strip(parts[3])
                     ELSE content
         IN IF frontmatter.kind # "dict" THEN None  \* frontmatter.get raises
            ELSE [id |-> filename,
                  \* f"{description}\n\n{body}" writes None as "None"
                  document |-> (IF frontmatter.is_none THEN <<"None">>
                                ELSE frontmatter.description)
                               \o <<NL, NL>> \o TextOf(body),
                  metadata |-> [filename |-> filename,
                                description |-> frontmatter.description,
                                path |-> <<dir_path, filename>>,
                                body |-> body]]

\* glob.glob(os.path.join(dir, "*.mdc")): a directory is [path, files], files
\* a function from the names to what is there
glob(dir) ==
    {name \in DOMAIN dir.files :
        dir.files[name].kind # "absent" /\ name[Len(name)] = ".mdc"}

\* Collection.upsert: an id that is already there gets the new entry
CollectionUpsert(coll, entries) ==
    [i \in DOMAIN coll \cup {e.id : e \in entries} |->
        IF \E e \in entries : e.id = i
        THEN LET e == CHOOSE x \in entries : x.id = i
             IN [document |-> e.document, metadata |-> e.metadata]
        ELSE coll[i]]

\* index_skills on the directory and the collection
index_skills(dir, coll) ==
    LET skill_files == glob(dir)
        entries == {FileEntry(dir.path, n, dir.files[n]) : n \in skill_files} \ {None}
    IN IF skill_files = {} \/ entries = {} THEN coll
       ELSE CollectionUpsert(coll, entries)

\* index_implants, which differs in the names of its variables only
index_implants(dir, coll) == index_skills(dir, coll)

\* Collection.query(query_texts=[text], n_results=n): the possible answers,
\* the nearest first.  Entries at the same distance may come in either order.
CollectionQueryN(coll, text, n) ==
    LET size == Cardinality(DOMAIN coll)
        k == IF n < size THEN n ELSE size
        d(i) == Distance(coll[i].document, text)
    IN {[ids |-> <<r>>,
         distances |-> << [j \in 1..k |-> d(r[j])] >>,
         metadatas |-> << [j \in 1..k |-> coll[r[j]].metadata] >>,
         documents |-> << [j \in 1..k |-> coll[r[j]].document] >>] :
            r \in {s \in [1..k -> DOMAIN coll] :
                     /\ \A a, b \in 1..k :
                           a < b => s[a] # s[b] /\ FLeq(d(s[a]), d(s[b]))
                     /\ \A i \in DOMAIN coll \ {s[a] : a \in 1..k} :
                           \A a \in 1..k : FLeq(d(s[a]), d(i))}}

\* Collection.get(ids=ids): the entries that are there, in an order the
\* store chooses
CollectionGet(coll, ids) ==
    LET found == {ids[j] : j \in 1..Len(ids)} \cap DOMAIN coll
        k == Cardinality(found)
    IN {[ids |-> r,
         metadatas |-> [j \in 1..k |-> coll[r[j]].metadata],
         documents |-> [j \in 1..k |-> coll[r[j]].document]] :
            r \in {s \in [1..k -> found] : \A a, b \in 1..k : a < b => s[a] # s[b]}}

\* what retrieve returns for one entry
Item(filename, content, metadata, distance) ==
    [filename |-> filename, content |-> content, metadata |-> metadata,
     distance |-> distance]

\* Thresholded letting through what is at the threshold
Thresholded_AtMost(cls, results) ==
    SelectSeq([i \in 1..Len(results.distances[1]) |->
                  Item(results.ids[1][i], results.metadatas[1][i].body,
                       results.metadatas[1][i], results.distances[1][i])],
              LAMBDA item : FLeq(item.distance, RELEVANCE_THRESHOLD(cls)))

\* the filter both retrievers pass the answer of Collection.query through
Thresholded(cls, results) ==
    SelectSeq([i \in 1..Len(results.distances[1]) |->
                  Item(results.ids[1][i], results.metadatas[1][i].body,
                       results.metadatas[1][i], results.distances[1][i])],
              LAMBDA item : FLess(item.distance, RELEVANCE_THRESHOLD(cls)))

\* What a call of retrieve comes to: the list it returns, or the exception
\* of the store that leaves it, and the calls it made on the collection, in
\* order.
Outcome(items, calls) == [items |-> items, calls |-> calls]
VectorStoreError == Raised("VectorStoreError")

\* SkillRetriever.retrieve with the test for an empty collection left out
SkillRetriever_retrieve_NoCountTest(coll, query, n_results, preferred_skills, fails) ==
    IF "query" \in fails THEN {Outcome(VectorStoreError, <<"query">>)}
    ELSE {Outcome(Thresholded("SkillRetriever", r), <<"query">>) :
             r \in CollectionQueryN(coll, query, n_results)}

\* SkillRetriever.retrieve returning what it has when Collection.get raises
SkillRetriever_retrieve_NoFallback(coll, query, n_results, preferred_skills, fails) ==
    IF "count" \in fails THEN {Outcome(VectorStoreError, <<"count">>)}
    ELSE IF DOMAIN coll = {} THEN {Outcome(<<>>, <<"count">>)}
    ELSE IF preferred_skills # <<>> /\ "get" \in fails
    THEN {Outcome(<<>>, <<"count", "get">>)}
    ELSE IF "query" \in fails THEN {Outcome(VectorStoreError, <<"count", "query">>)}
    ELSE {Outcome(Thresholded("SkillRetriever", r), <<"count", "query">>) :
             r \in CollectionQueryN(coll, query, n_results)}

\* SkillRetriever.retrieve: the possible outcomes.  fails is the set of the
\* methods of the collection that raise when they are called; only the call
\* of get is inside a try.
SkillRetriever_retrieve(coll, query, n_results, preferred_skills, fails) ==
    IF "count" \in fails THEN {Outcome(VectorStoreError, <<"count">>)}
    ELSE IF DOMAIN coll = {} THEN {Outcome(<<>>, <<"count">>)}
    ELSE LET target_ids ==
                 [j \in 1..Len(preferred_skills) |->
                     LET ps == preferred_skills[j]
                     IN IF ps # <<>> /\ ps[Len(ps)] = ".mdc" THEN ps
                        ELSE ps \o <<".mdc">>]
             similar(calls) ==
                 IF "query" \in fails
                 THEN {Outcome(VectorStoreError, calls \o <<"query">>)}
                 ELSE {Outcome(Thresholded("SkillRetriever", r), calls \o <<"query">>) :
                          r \in CollectionQueryN(coll, query, n_results)}
         IN IF preferred_skills = <<>> THEN similar(<<"count">>)
            ELSE IF "get" \in fails THEN similar(<<"count", "get">>)
            ELSE {Outcome([i \in 1..Len(results.ids) |->
                              Item(results.ids[i], results.metadatas[i].body,
                                   results.metadatas[i], FZero)],
                          <<"count", "get">>) :
                     results \in CollectionGet(coll, target_ids)}

\* the text ImplantRetriever.retrieve sends to the store
search_query(query, history_text, role, agent_context) ==
    LET the_role == IF agent_context # <<>> /\ role = <<>> THEN agent_context
                    ELSE role
    IN <<"Query: ">> \o query
       \o (IF the_role # <<>> THEN <<NL, "Role: ">> \o the_role ELSE <<>>)
       \o (IF history_text # <<>>
           THEN <<NL, "Context: ">> \o LastChars(history_text, 300)
           ELSE <<>>)

\* ImplantRetriever.retrieve: the possible outcomes; no call of the store is
\* inside a try
ImplantRetriever_retrieve(coll, query, n_results, history_text, role, agent_context, fails) ==
    IF "count" \in fails THEN {Outcome(VectorStoreError, <<"count">>)}
    ELSE IF DOMAIN coll = {} THEN {Outcome(<<>>, <<"count">>)}
    ELSE IF "query" \in fails THEN {Outcome(VectorStoreError, <<"count", "query">>)}
    ELSE {Outcome(Thresholded("ImplantRetriever", r), <<"count", "query">>) :
             r \in CollectionQueryN(coll, search_query(query, history_text, role,
                                                       agent_context), n_results)}

\* format_implants_for_prompt: the text it builds is a heading and, for each
\* implant, a section of its filename, its description and its content; the
\* text is kept as the sequence of the sections, and no implants give ""
format_implants_for_prompt(implants) ==
    [i \in 1..Len(implants) |->
        [filename |-> implants[i].metadata.filename,
         description |-> implants[i].metadata.description,
         content |-> implants[i].content]]

\* TASK_IMPLANT_MAP of get_reasoning_strategy.  The eight implants stand
\* under short names, those the directories below give their files: a for
\* implant-chain-of-code, b for implant-reflexion, c for
\* implant-step-back-prompting, d for implant-chain-of-verification, e for
\* implant-analogical-prompting, f for implant-generated-knowledge, g for
\* implant-plan-and-solve-plus, h for implant-skeleton-of-thought.
TASK_IMPLANT_MAP ==
    [task_type \in {"debugging", "analysis", "creative", "planning"} |->
        CASE task_type = "debugging" -> << <<"a">>, <<"b">> >>
          [] task_type = "analysis" -> << <<"c">>, <<"d">> >>
          [] task_type = "creative" -> << <<"e">>, <<"f">> >>
          [] task_type = "planning" -> << <<"g">>, <<"h">> >>]

\* what the tool answers when it has no sections to give
Message(text) == [kind |-> "message", text |-> text]

\* The tool get_reasoning_strategy of server.py over the collection of the
\* implant retriever: the possible answers.  It reads the entries with
\* Collection.get itself instead of calling retrieve.
get_reasoning_strategy(coll, task_type, fails) ==
    LET implant_names == IF task_type \in DOMAIN TASK_IMPLANT_MAP
                         THEN TASK_IMPLANT_MAP[task_type] ELSE <<>>
        target_ids ==
            [j \in 1..Len(implant_names) |->
                LET name == implant_names[j]
                IN IF name # <<>> /\ name[Len(name)] = ".mdc" THEN name
                   ELSE name \o <<".mdc">>]
    IN IF implant_names = <<>> THEN {Message("Unknown task type")}
       ELSE IF "get" \in fails THEN {Message("Error loading strategy")}
       ELSE {[kind |-> "formatted",
              sections |->
                  format_implants_for_prompt(
                      [i \in 1..Len(results.ids) |->
                          Item(results.ids[i], results.documents[i],
                               results.metadatas[i], FZero)])] :
                results \in CollectionGet(coll, target_ids)}

\* The directories of .mdc files in use.  "a.mdc" is a file without
\* frontmatter whose one word sets its distance from the queries; "b.mdc" is
\* absent, or has a description, or empty frontmatter, or frontmatter that
\* does not load, or is a directory; "notes.txt" is always there.
A_MDC == <<"a", ".mdc">>
B_MDC == <<"b", ".mdc">>
FilesAt(cls, name) ==
    IF name = A_MDC
    THEN {Absent} \cup {File(<<Text(c)>>) :
                           c \in IF cls = "SkillRetriever" THEN {"s", "t", "u", "m"}
                                 ELSE {"m", "v", "w", "x"}}
    ELSE IF name = B_MDC
    THEN {Absent, Directory,
          File(<<Dash, Text("description:"), Text("a"), Dash, Ws, Text("s"), Ws>>),
          File(<<Dash, Dash, Text("s")>>),
          File(<<Dash, Text("{"), Dash, Text("s")>>)}
    ELSE {File(<<Text("s")>>)}
Dirs(cls) ==
    LET FileNames == {A_MDC, B_MDC, <<"notes", ".txt">>}
    IN {[path |-> IF cls = "SkillRetriever" THEN ".cursor/skills"
                  ELSE ".cursor/implants",
         files |-> f] :
           f \in {g \in [FileNames -> UNION {FilesAt(cls, n) : n \in FileNames}] :
                    \A n \in FileNames : g[n] \in FilesAt(cls, n)}}

\* the inputs of retrieve
MaxResults == 2
RetrieverQueries == {<<"q">>, <<"q", "a">>}
PreferredSkills == {<<>>, << <<"a">> >>, <<B_MDC, <<"a">> >>, << <<"z">> >>}
Roles == {<<>>, <<"a">>}
StoreFailures == {{}, {"count"}, {"query"}, {"get"}}
TaskTypes == {"debugging", "analysis", "other"}

\* __init__ indexing the directory whatever the collection holds
Constructed_AlwaysIndexes(cls, dir, coll) ==
    [cls |-> cls, dir |-> dir,
     coll |-> IF cls = "SkillRetriever" THEN index_skills(dir, coll)
              ELSE index_implants(dir, coll)]

\* __init__ of either class over a directory and a persistent collection
Constructed(cls, dir, coll) ==
    [cls |-> cls, dir |-> dir,
     coll |-> IF DOMAIN coll # {} THEN coll
              ELSE IF cls = "SkillRetriever" THEN index_skills(dir, coll)
              ELSE index_implants(dir, coll)]

\* a retriever constructed over an empty collection
InitRetriever ==
    /\ \E cls \in {"SkillRetriever", "ImplantRetriever"} :
         \E dir \in Dirs(cls) : retriever = Constructed(cls, dir, EmptyCollection)
    /\ last = [op |-> "none"]
    /\ ret = None
    /\ available_agents = {UNIVERSAL}
    /\ collection = EmptyCollection
    /\ tasks = <<>>
    /\ fs = NoFiles
    /\ LoaderIdle
    /\ ServerIdle

\* a new retriever of the class is constructed over the same collection
Construct ==
    /\ retriever' = Constructed(retriever.cls, retriever.dir, retriever.coll)
    /\ last' = [op |-> "__init__", before |-> retriever.coll]
    /\ ret' = None
    /\ UNCHANGED <<available_agents, collection, tasks, loaderVars, serverVars>>

\* index_skills or index_implants is called
Index ==
    /\ retriever' = [retriever EXCEPT !.coll =
                         IF retriever.cls = "SkillRetriever"
                         THEN index_skills(retriever.dir, retriever.coll)
                         ELSE index_implants(retriever.dir, retriever.coll)]
    /\ last' = [op |-> "index", before |-> retriever.coll]
    /\ ret' = None
    /\ UNCHANGED <<available_agents, collection, tasks, loaderVars, serverVars>>

\* somebody changes a file of the directory
WriteFile(name, file) ==
    /\ file \in FilesAt(retriever.cls, name)
    /\ file # retriever.dir.files[name]
    /\ retriever' = [retriever EXCEPT !.dir.files[name] = file]
    /\ last' = [op |-> "write"]
    /\ ret' = None
    /\ UNCHANGED <<available_agents, collection, tasks, loaderVars, serverVars>>

\* a call of retrieve
Retrieve(query, n_results, preferred_skills, role, fails) ==
    /\ tasks = <<>>
    /\ \E outcome \in
            IF retriever.cls = "SkillRetriever"
            THEN SkillRetriever_retrieve(retriever.coll, query, n_results,
                                         preferred_skills, fails)
            ELSE ImplantRetriever_retrieve(retriever.coll, query, n_results,
                                           NoHistory, role, <<>>, fails) :
         /\ ret' = outcome.items
         /\ last' = [op |-> "retrieve", query |-> query, n_results |-> n_results,
                     preferred_skills |-> preferred_skills, role |-> role,
                     fails |-> fails, calls |-> outcome.calls]
    /\ UNCHANGED <<retriever, available_agents, collection, tasks, loaderVars, serverVars>>

\* the entries collection.get handed over for this answer, as they were read
EntriesRead(coll, answer) ==
    IF answer.kind # "formatted" THEN <<>>
    ELSE [n \in {answer.sections[i].filename : i \in 1..Len(answer.sections)} |->
             coll[n]]

\* The tool get_reasoning_strategy is called.  A task type that the map
\* lacks is answered at once; for the others the call hands collection.get
\* to the executor and awaits it (server.py:367).  The calls of the tool
\* change nothing that another reads, so they are made one at a time, and
\* retrieve, which changes nothing either, is not called meanwhile; the files
\* are written and indexed beside them.
GetReasoningStrategy(task_type) ==
    /\ retriever.cls = "ImplantRetriever"
    /\ IF task_type \in DOMAIN TASK_IMPLANT_MAP
       THEN /\ tasks = <<>>
            /\ tasks' = Append(tasks, [op |-> "strategy", task_type |-> task_type,
                                       job |-> Pending])
            /\ UNCHANGED <<last, ret>>
       ELSE /\ \E answer \in get_reasoning_strategy(retriever.coll, task_type, {}) :
                  ret' = answer
            /\ last' = [op |-> "strategy", task_type |-> task_type, fails |-> {},
                        read |-> <<>>]
            /\ UNCHANGED tasks
    /\ UNCHANGED <<retriever, available_agents, collection, loaderVars, serverVars>>

\* The worker thread runs collection.get for the call in flight: it reads
\* the collection as it is now, or raises.  The call stays suspended, and
\* what it will make of the entries read is settled.
StrategyGetJob(fails) ==
    /\ tasks # <<>>
    /\ tasks[1].job = Pending
    /\ \E answer \in get_reasoning_strategy(retriever.coll, tasks[1].task_type, fails) :
          tasks' = [tasks EXCEPT ![1].job =
                       Delivered([answer |-> answer, fails |-> fails,
                                  read |-> EntriesRead(retriever.coll, answer)])]
    /\ UNCHANGED <<routerVars, retriever, loaderVars, serverVars>>

\* The loop resumes the call with what the job read, and the call returns
\* its answer.
AwaitStrategyGet ==
    /\ tasks # <<>>
    /\ tasks[1].job # Pending
    /\ ret' = tasks[1].job.value.answer
    /\ last' = [op |-> "strategy", task_type |-> tasks[1].task_type,
                fails |-> tasks[1].job.value.fails, read |-> tasks[1].job.value.read]
    /\ tasks' = <<>>
    /\ UNCHANGED <<retriever, available_agents, collection, loaderVars, serverVars>>

NextRetriever ==
    \/ Construct
    \/ Index
    \/ \E t \in TaskTypes : GetReasoningStrategy(t)
    \/ \E f \in {{}, {"get"}} : StrategyGetJob(f)
    \/ AwaitStrategyGet
    \/ \E name \in {A_MDC, B_MDC} : \E file \in FilesAt(retriever.cls, name) :
          WriteFile(name, file)
    \/ \E q \in RetrieverQueries, n \in 1..MaxResults :
          \/ /\ retriever.cls = "SkillRetriever"
             /\ \E p \in PreferredSkills, f \in StoreFailures :
                   (f # {} => (p # <<>> <=> f = {"get"})) /\ Retrieve(q, n, p, <<>>, f)
          \/ /\ retriever.cls = "ImplantRetriever"
             /\ \E r \in Roles, f \in StoreFailures \ {{"get"}} :
                   Retrieve(q, n, <<>>, r, f)

SpecRetriever == InitRetriever /\ [][NextRetriever]_vars

-----------------------------------------------------------------------------
(* Claims about the retrievers                                             *)

\* the last call was retrieve, of the class
Retrieved(cls) == last.op = "retrieve" /\ retriever.cls = cls

\* C12: for both retrievers, retrieve on a collection whose count is 0
\* returns the empty list and calls neither query nor get on the store,
\* whatever the query, n_results and the preferred ids are.
C12_EmptyCollectionShortCircuits ==
    (last.op = "retrieve" /\ "count" \notin last.fails /\ DOMAIN retriever.coll = {}) =>
        /\ ret = <<>>
        /\ \A i \in 1..Len(last.calls) : last.calls[i] \notin {"query", "get"}

\* retrieve with preferred ids has met an empty collection
C12_Witness ==
    /\ Retrieved("SkillRetriever")
    /\ DOMAIN retriever.coll = {}
    /\ last.preferred_skills # <<>>
    /\ last.n_results = MaxResults

\* the text the last retrieve searched the store for
SearchText ==
    IF retriever.cls = "SkillRetriever" THEN last.query
    ELSE <<"Query: ">> \o last.query
         \o (IF last.role = <<>> THEN <<>> ELSE <<NL, "Role: ">> \o last.role)

\* the distance of a stored entry from that text
DistanceOf(id) == Distance(retriever.coll[id].document, SearchText)

\* the thresholds as the claim gives them, 0.45 and 0.73 as doubles
C13_Threshold ==
    IF retriever.cls = "SkillRetriever" THEN F(450000000, 11)
    ELSE F(729999999, 999999982)

\* the last call was a similarity search: retrieve without preferred ids
SimilaritySearch ==
    last.op = "retrieve" /\ last.preferred_skills = <<>> /\ last.fails = {}

\* C13: without preferred ids, retrieve returns exactly those of the
\* n_results nearest neighbours whose distance is strictly below the
\* threshold (0.45 for skills, 0.73 for implants), in the rank order of the
\* store: at most n_results items, possibly none, and never a neighbour at a
\* distance equal to or above the threshold.
C13_ThresholdedNearest ==
    SimilaritySearch =>
        /\ Len(ret) <= last.n_results
        /\ \A i \in 1..Len(ret) :
              /\ ret[i].filename \in DOMAIN retriever.coll
              /\ ret[i].distance = DistanceOf(ret[i].filename)
              /\ FLess(ret[i].distance, C13_Threshold)
              /\ ret[i].content = retriever.coll[ret[i].filename].metadata.body
              \* it can be one of the n_results nearest
              /\ Cardinality({y \in DOMAIN retriever.coll :
                                FLess(DistanceOf(y), ret[i].distance)}) < last.n_results
        /\ \A i, j \in 1..Len(ret) :
              i < j => /\ ret[i].filename # ret[j].filename
                       /\ FLeq(ret[i].distance, ret[j].distance)
        \* what is below the threshold and surely one of the nearest is returned
        /\ \A x \in DOMAIN retriever.coll :
              (/\ FLess(DistanceOf(x), C13_Threshold)
               /\ Cardinality({y \in DOMAIN retriever.coll \ {x} :
                                 FLeq(DistanceOf(y), DistanceOf(x))}) < last.n_results)
                  => \E i \in 1..Len(ret) : ret[i].filename = x

\* of two stored entries that were both asked for, the one at the threshold
\* was dropped and the other returned
C13_Witness ==
    /\ SimilaritySearch
    /\ Cardinality(DOMAIN retriever.coll) = 2
    /\ last.n_results = 2
    /\ Len(ret) = 1
    /\ \E x \in DOMAIN retriever.coll : DistanceOf(x) = C13_Threshold

\* the preferred ids of the last call with ".mdc" appended where it lacks
NormalizedIds ==
    [j \in 1..Len(last.preferred_skills) |->
        LET ps == last.preferred_skills[j]
        IN IF ps # <<>> /\ ps[Len(ps)] = ".mdc" THEN ps ELSE ps \o <<".mdc">>]

\* those of them that are stored, in the order in which they were requested
FoundAsRequested ==
    SelectSeq(NormalizedIds, LAMBDA id : id \in DOMAIN retriever.coll)

\* the last call was SkillRetriever.retrieve with preferred ids on a
\* collection that is not empty
PreferredFetch ==
    /\ Retrieved("SkillRetriever")
    /\ last.preferred_skills # <<>>
    /\ DOMAIN retriever.coll # {}

\* C14: SkillRetriever.retrieve with preferred ids makes no similarity
\* query: it appends ".mdc" to the ids that lack it, fetches the entries by
\* exact id, and returns the entries found in the order in which the ids were
\* requested, each with distance 0.
C14_PreferredInRequestOrder ==
    (PreferredFetch /\ last.fails = {}) =>
        /\ \A i \in 1..Len(last.calls) : last.calls[i] # "query"
        /\ Len(ret) = Len(FoundAsRequested)
        /\ \A i \in 1..Len(ret) :
              /\ ret[i].filename = FoundAsRequested[i]
              /\ ret[i].distance = FZero
              /\ ret[i].content = retriever.coll[ret[i].filename].metadata.body

\* what a similarity search of the last call's query can return
SimilarityResults ==
    {outcome.items :
        outcome \in SkillRetriever_retrieve(retriever.coll, last.query,
                                            last.n_results, <<>>, {})}

\* the last call ended with a similarity query whose thresholded answer it
\* returned
FellBackToSimilarity ==
    /\ last.calls[Len(last.calls)] = "query"
    /\ ret \in SimilarityResults

\* C15: when preferred ids are supplied and none of the normalized ids is in
\* a store that is not empty, retrieve falls back to the similarity search
\* and returns its thresholded results.
C15_NoneFoundFallsBack ==
    (PreferredFetch /\ last.fails = {} /\ FoundAsRequested = <<>>) =>
        FellBackToSimilarity

\* C16: when the store's get by id raises during the retrieval of preferred
\* ids, retrieve does not raise: it goes on to the similarity search and
\* returns its thresholded results.
C16_GetFailureFallsBack ==
    (PreferredFetch /\ last.fails = {"get"}) => FellBackToSimilarity

\* get raised for ids that are stored, and the search that followed returned
\* an entry
C16_Witness ==
    /\ PreferredFetch
    /\ last.fails = {"get"}
    /\ FoundAsRequested # <<>>
    /\ ret # <<>>
    /\ last.calls = <<"count", "get", "query">>

\* the collection holds, under its file name, the entry index_skills makes
\* of each file the directory has now: it was populated from the directory
\* as it is
PopulatedFrom(dir, coll) ==
    /\ DOMAIN coll # {}
    /\ \A n \in glob(dir) :
          LET e == FileEntry(dir.path, n, dir.files[n])
          IN e # None =>
                /\ n \in DOMAIN coll
                /\ coll[n] = [document |-> e.document, metadata |-> e.metadata]

\* the ids, documents and metadata are those of before the last call, and a
\* query is answered as it was before
SameAsBefore ==
    /\ DOMAIN retriever.coll = DOMAIN last.before
    /\ \A id \in DOMAIN last.before : retriever.coll[id] = last.before[id]
    /\ \A q \in RetrieverQueries, n \in 1..MaxResults :
          CollectionQueryN(retriever.coll, q, n) = CollectionQueryN(last.before, q, n)

\* C17: the ids of a collection are the file names, so indexing the unchanged
\* directory again into the populated collection (index_skills or
\* index_implants), or constructing a new retriever over a collection that is
\* not empty, leaves the ids and every stored document and metadata as they
\* were, and a fixed query gets the same ranked ids and distances as before.
C17_ReindexChangesNothing ==
    /\ (last.op = "index" /\ PopulatedFrom(retriever.dir, last.before)) => SameAsBefore
    /\ (last.op = "__init__" /\ DOMAIN last.before # {}) => SameAsBefore

\* a directory of two indexed files was indexed again
C17_Witness ==
    /\ last.op = "index"
    /\ PopulatedFrom(retriever.dir, last.before)
    /\ Cardinality(DOMAIN last.before) = 2
    /\ Cardinality(glob(retriever.dir)) = 2

-----------------------------------------------------------------------------
(* SemanticRouter.__init__ over the directories it can meet                *)

\* .cursor/agents absent, unreadable, or listing any of these entries; a
\* scan that an entry interrupts has any of the other entries behind it
AgentsEntries ==
    {Entry(SECURITY, TRUE, TRUE), Entry(UNIVERSAL, TRUE, TRUE),
     Entry("coder", TRUE, TRUE), Entry("draft", TRUE, FALSE),
     Entry("common", TRUE, TRUE), Entry(".git", TRUE, TRUE),
     Entry("README.md", FALSE, FALSE)}
AgentsDirs ==
    {NoDirectory, Interrupted({}, {})}
    \cup {Listing(entries) : entries \in SUBSET AgentsEntries}
    \cup UNION {{Interrupted(entries \cup {Entry("zz", FALSE, FALSE)}, scanned) :
                    scanned \in SUBSET entries} :
                 entries \in SUBSET {Entry(SECURITY, TRUE, TRUE),
                                     Entry("coder", TRUE, TRUE),
                                     Entry("common", TRUE, TRUE)}}

\* no router is constructed yet
InitScan ==
    /\ available_agents = {}
    /\ collection = EmptyCollection
    /\ last = NoCall
    /\ ret = None
    /\ fs = NoFiles
    /\ LoaderIdle
    /\ ServerIdle
    /\ EngineIdle

\* SemanticRouter.__init__ on a machine with this directory
ConstructRouter(dir) ==
    /\ available_agents' = _scan_agents(dir)
    /\ last' = [op |-> "__init__", dir |-> dir]
    /\ UNCHANGED <<collection, ret, loaderVars, serverVars, engineVars>>

NextScan == \E dir \in AgentsDirs : ConstructRouter(dir)

SpecScan == InitScan /\ [][NextScan]_vars

\* the names of the subdirectories that count as agents among the entries
\* the scan got through
AgentsListed(dir) ==
    {e.name : e \in {x \in dir.scanned :
                        /\ x.is_dir /\ x.has_prompt
                        /\ x.name \notin {".git", "common"}}}

\* C18: after construction the router's set of known agents is never empty:
\* whenever the scan yields no agent (the directory is absent or unreadable,
\* or no subdirectory has a system prompt) available_agents is exactly
\* ["universal_agent"].
C18_KnownAgentsNeverEmpty ==
    last.op = "__init__" =>
        /\ available_agents # {}
        /\ (~last.dir.exists \/ AgentsListed(last.dir) = {})
              => available_agents = {UNIVERSAL}

\* C19: every RouterDecision that route returns has a confidence between 0
\* and 1 and names as target_agent one of the router's known agents, whatever
\* the classifier answers and whatever the cache holds.  (Checked under
\* SpecRouter; confidences are in hundredths.)
C19_DecisionsAreWellFormed ==
    (last.op = "route" /\ IsDecision(ret)) =>
        /\ ret.confidence \in 0..100
        /\ ret.target_agent \in available_agents

-----------------------------------------------------------------------------
(* Concurrent calls of SemanticRouter.route                                *)

\* A call of route is a coroutine that gives way at each await: before the
\* store's query, before the classifier's answer and before the store's add.
\* Each call has a request id of its own.  job: the job of the call in the
\* executor, pending from the moment the call awaits it.
Task(pc, query, decision, wrote) ==
    [pc |-> pc, query |-> query, decision |-> decision, wrote |-> wrote,
     job |-> Pending]

InitConcurrent ==
    /\ tasks = [id \in RequestIds |-> Task("idle", <<>>, None, FALSE)]
    /\ retriever = None
    /\ available_agents = _scan_agents(AGENTS_DIR)
    /\ collection = EmptyCollection
    /\ last = NoCall
    /\ ret = None
    /\ fs = NoFiles
    /\ LoaderIdle
    /\ ServerIdle

\* route is called with a request of this id
BeginRoute(id, query) ==
    /\ tasks[id].pc = "idle"
    /\ tasks' = [tasks EXCEPT ![id] = Task("lookup", query, None, FALSE)]
    /\ UNCHANGED <<routerVars, loaderVars, serverVars, retriever>>

\* the worker thread runs the store's query of lookup_cache, which reads the
\* collection as it is now or raises
LookupJob(id, lookup_fails) ==
    /\ tasks[id].pc = "lookup"
    /\ tasks[id].job = Pending
    /\ \E cached \in lookup_cache(collection, tasks[id].query, NoHistory, lookup_fails) :
          tasks' = [tasks EXCEPT ![id] = [@ EXCEPT !.job = Delivered(cached)]]
    /\ UNCHANGED <<routerVars, loaderVars, serverVars, retriever>>

\* the loop resumes the call with the answer of the query: a hit is returned;
\* a miss, which a store that raised is too, goes on to the classifier, or to
\* the decision returned at once when the client cannot be made
AwaitLookup(id, client_fails) ==
    /\ tasks[id].pc = "lookup"
    /\ tasks[id].job # Pending
    /\ LET cached == tasks[id].job.value
       IN tasks' = [tasks EXCEPT ![id] =
                       IF cached # None THEN Task("done", @.query, cached, FALSE)
                       ELSE IF client_fails
                       THEN Task("done", @.query,
                                 _get_llm_decision([kind |-> "init_error"]), FALSE)
                       ELSE Task("classify", @.query, None, FALSE)]
    /\ UNCHANGED <<routerVars, loaderVars, serverVars, retriever>>

\* _get_llm_decision returns; the decision is returned or is to be written
AwaitClassifier(id, response) ==
    /\ tasks[id].pc = "classify"
    /\ response.kind # "init_error"
    /\ LET decision == _get_llm_decision(response)
       IN tasks' = [tasks EXCEPT ![id] =
                       Task(IF ShouldCache(decision) THEN "write" ELSE "done",
                            @.query, decision, FALSE)]
    /\ UNCHANGED <<routerVars, loaderVars, serverVars, retriever>>

\* the worker thread runs the store's add of update_cache, which takes the
\* entry or raises
UpdateJob(id, write_fails) ==
    /\ tasks[id].pc = "write"
    /\ tasks[id].job = Pending
    /\ collection' = update_cache(collection, tasks[id].query,
                                  tasks[id].decision.target_agent,
                                  tasks[id].decision.reasoning, id, write_fails)
    /\ tasks' = [tasks EXCEPT ![id] =
                    [@ EXCEPT !.job = Delivered(None), !.wrote = ~write_fails]]
    /\ UNCHANGED <<available_agents, last, ret, loaderVars, serverVars, retriever>>

\* the loop resumes the call after the add and route returns the decision
AwaitUpdate(id) ==
    /\ tasks[id].pc = "write"
    /\ tasks[id].job # Pending
    /\ tasks' = [tasks EXCEPT ![id] = Task("done", @.query, @.decision, @.wrote)]
    /\ UNCHANGED <<routerVars, loaderVars, serverVars, retriever>>

NextConcurrent ==
    \E id \in RequestIds :
        \/ \E q \in Queries : BeginRoute(id, q)
        \/ \E lookup_fails \in BOOLEAN : LookupJob(id, lookup_fails)
        \/ \E client_fails \in BOOLEAN : AwaitLookup(id, client_fails)
        \/ \E response \in ClassifierResponses : AwaitClassifier(id, response)
        \/ \E wf \in BOOLEAN : UpdateJob(id, wf)
        \/ AwaitUpdate(id)

SpecConcurrent == InitConcurrent /\ [][NextConcurrent]_vars

\* every write the store took is there under its request id, as written
C20_WritesAreThere ==
    \A id \in RequestIds :
        tasks[id].wrote =>
            /\ id \in DOMAIN collection
            /\ collection[id].document = tasks[id].query
            /\ collection[id].metadata.target_agent = tasks[id].decision.target_agent

\* every hit names the agent of an entry that a write has stored
C20_HitsAreValid ==
    \A id \in RequestIds :
        (tasks[id].pc = "done" /\ IsDecision(tasks[id].decision)
         /\ tasks[id].decision.is_cached) =>
            \E i \in DOMAIN collection :
                /\ collection[i].metadata.target_agent = tasks[id].decision.target_agent
                /\ \E w \in RequestIds \ {id} : tasks[w].wrote /\ w = i

\* no step takes an entry away or changes it
C20_Step ==
    \A i \in DOMAIN collection : i \in DOMAIN collection' /\ collection'[i] = collection[i]

\* C20: under any interleaving of concurrent calls of route with distinct
\* request ids, every cache write takes effect and none is lost or
\* overwritten by another; and every cache hit returns the target_agent of an
\* entry that an earlier write stored.  (That two concurrent misses for
\* near-duplicate queries may both write is the state C20_Witness.)
C20_ConcurrentWritesAreSafe ==
    /\ [](C20_WritesAreThere /\ C20_HitsAreValid)
    /\ [][C20_Step]_vars

\* two calls for near-duplicate queries both missed and both wrote
C20_Witness ==
    /\ \A id \in {1, 2} : tasks[id].wrote /\ ~tasks[id].decision.is_cached
    /\ tasks[1].query # tasks[2].query
    /\ FLess(Distance(tasks[1].query, tasks[2].query),
             FSub(FOne, SIMILARITY_THRESHOLD))
    /\ {1, 2} \subseteq DOMAIN collection

-----------------------------------------------------------------------------
(* Claims about the expansion of references                                *)

\* the files being expanded on the chain that leads to the tokens re.sub is
\* going through: the top-level document first
Chain == {stack[i].path : i \in 1..Len(stack)}

\* re.sub is at a reference that resolves inside the root
AtResolvedReference ==
    /\ lpc = "expanding"
    /\ Top.rest # <<>>
    /\ Head(Top.rest).k = "ref"
    /\ resolve_path(fs, Head(Top.rest).ref).ok

\* the step puts a [CIRCULAR REFERENCE] marker in place of that reference
C30_Marked ==
    /\ Len(stack') = Len(stack)
    /\ stack'[Len(stack)].out =
          Top.out \o <<Marker("CIRCULAR REFERENCE", Head(Top.rest).ref, <<>>)>>

C30_Step ==
    AtResolvedReference =>
        (C30_Marked <=> resolve_path(fs, Head(Top.rest).ref).path \in Chain)

\* C30: during one top-level expansion a reference is replaced by a
\* [CIRCULAR REFERENCE] marker if and only if its path is the top-level
\* document or a file that is being expanded on the chain leading to the
\* reference; a file referenced twice by sibling references, or reached
\* through two branches, is expanded each time, whatever the order of the
\* references.
C30_CircularIffOnChain == [][C30_Step]_vars

\* the last call was retrieve and a call it made on the store raised
StoreRaised ==
    /\ last.op = "retrieve"
    /\ \E i \in 1..Len(last.calls) : last.calls[i] \in last.fails

\* C24: an error of the vector store raised inside retrieve, by count, by
\* query or by get, does not reach the caller of either retriever: the call
\* returns an empty result.
C24_StoreErrorsDegrade == StoreRaised => ret = <<>>

\* the text SkillRetriever.retrieve sends to the store for a query
SkillSearchText(query) == query

\* C25: the two retrievers differ in directory, collection name and threshold
\* only: a file is indexed the same way by both, and for the same query the
\* ImplantRetriever sends the store the search text the SkillRetriever sends,
\* and returns what the same strict filter lets through of the answer to it.
C25_SameSearchAsSkills ==
    /\ \A cls \in {"SkillRetriever", "ImplantRetriever"} :
          \A dir \in Dirs(cls) :
             index_implants(dir, EmptyCollection) = index_skills(dir, EmptyCollection)
    /\ (Retrieved("ImplantRetriever") /\ "query" \in
            {last.calls[i] : i \in 1..Len(last.calls)} \ last.fails) =>
          /\ search_query(last.query, NoHistory, last.role, <<>>)
                = SkillSearchText(last.query)
          /\ ret \in {Thresholded("ImplantRetriever", r) :
                        r \in CollectionQueryN(retriever.coll,
                                               SkillSearchText(last.query),
                                               last.n_results)}

-----------------------------------------------------------------------------
(* LanguageDetector (engine/language.py)                                   *)
(* A text is a sequence of characters.                                     *)

DEFAULT_LANGUAGE == "English"

LANG_MAP ==
    [iso_code \in {"en", "ru", "de", "es", "fr", "it", "pt", "nl", "pl", "tr",
                   "ja", "ko", "zh-cn", "zh-tw", "ar", "hi", "uk", "cs", "sv",
                   "da", "fi", "no", "el", "he"} |->
        CASE iso_code = "en" -> "English"
          [] iso_code = "ru" -> "Russian"
          [] iso_code = "de" -> "German"
          [] iso_code = "es" -> "Spanish"
          [] iso_code = "fr" -> "French"
          [] iso_code = "it" -> "Italian"
          [] iso_code = "pt" -> "Portuguese"
          [] iso_code = "nl" -> "Dutch"
          [] iso_code = "pl" -> "Polish"
          [] iso_code = "tr" -> "Turkish"
          [] iso_code = "ja" -> "Japanese"
          [] iso_code = "ko" -> "Korean"
          [] iso_code = "zh-cn" -> "Chinese (Simplified)"
          [] iso_code = "zh-tw" -> "Chinese (Traditional)"
          [] iso_code = "ar" -> "Arabic"
          [] iso_code = "hi" -> "Hindi"
          [] iso_code = "uk" -> "Ukrainian"
          [] iso_code = "cs" -> "Czech"
          [] iso_code = "sv" -> "Swedish"
          [] iso_code = "da" -> "Danish"
          [] iso_code = "fi" -> "Finnish"
          [] iso_code = "no" -> "Norwegian"
          [] iso_code = "el" -> "Greek"
          [] iso_code = "he" -> "Hebrew"]

\* str.strip()
RECURSIVE str_lstrip(_)
str_lstrip(text) ==
    IF text # <<>> /\ Head(text) \in {" ", NL} THEN str_lstrip(Tail(text)) ELSE text
RECURSIVE str_rstrip(_)
str_rstrip(text) ==
    IF text # <<>> /\ text[Len(text)] \in {" ", NL}
    THEN str_rstrip(SubSeq(text, 1, Len(text) - 1)) ELSE text
str_strip(text) == str_rstrip(str_lstrip(text))

\* What langdetect.detect does with a text: it answers an ISO code, or it
\* raises LangDetectException or something else.  The module can be patched,
\* so any answer is possible for any text.
Code(iso_code) == [kind |-> "code", iso_code |-> iso_code]
BackendResponses ==
    {Code(c) : c \in {"en", "fr", "zh-cn", "xx", ""}}
    \cup {Raised("LangDetectException"), Raised("Exception")}

\* the module the detector holds, when the import succeeded
Langdetect == [kind |-> "module"]

\* The body of LanguageDetector.detect: the possible outcomes, each the value
\* returned and what the backend answered when it was consulted.
Detected(value, backend) == [value |-> value, backend |-> backend]
detect_ReturningTheCode(langdetect, text) ==
    IF langdetect = None THEN {Detected(DEFAULT_LANGUAGE, NotCalled)}
    ELSE IF text = <<>> \/ str_strip(text) = <<>>
    THEN {Detected(DEFAULT_LANGUAGE, NotCalled)}
    ELSE IF Len(str_strip(text)) < 3 THEN {Detected(DEFAULT_LANGUAGE, NotCalled)}
    ELSE {Detected(IF response.kind = "code" THEN response.iso_code
                   ELSE DEFAULT_LANGUAGE, response) :
             response \in BackendResponses}

detect(langdetect, text) ==
    IF langdetect = None THEN {Detected(DEFAULT_LANGUAGE, NotCalled)}
    ELSE IF text = <<>> \/ str_strip(text) = <<>>
    THEN {Detected(DEFAULT_LANGUAGE, NotCalled)}
    ELSE IF Len(str_strip(text)) < 3 THEN {Detected(DEFAULT_LANGUAGE, NotCalled)}
    ELSE {Detected(IF response.kind = "code"
                   THEN IF response.iso_code \in DOMAIN LANG_MAP
                        THEN LANG_MAP[response.iso_code]
                        ELSE DEFAULT_LANGUAGE
                   ELSE DEFAULT_LANGUAGE, response) :
             response \in BackendResponses}

\* detect as its callers see it, behind lru_cache: a text this detector was
\* asked about before is answered from the cache, and nothing of the body
\* runs.  The outcomes, each with the cache after the call.
lru_cache_detect(self, text) ==
    IF text \in DOMAIN self.cache
    THEN {[value |-> self.cache[text], backend |-> NotCalled, hit |-> TRUE,
           cache |-> self.cache]}
    ELSE {[value |-> o.value, backend |-> o.backend, hit |-> FALSE,
           cache |-> (text :> o.value) @@ self.cache] :
             o \in detect(self.langdetect, text)}

\* the texts detect is called with
Texts ==
    {<<>>, <<" ", " ">>, <<" ", "a", "b", " ">>, <<"a", "b", "c">>,
     <<NL, "a", " ", "b">>}

\* LanguageDetector(): the import of langdetect succeeds or not; the new
\* object has no answer in the cache
NewDetector(langdetect) == [langdetect |-> langdetect, cache |-> <<>>]

InitLanguage ==
    /\ \E m \in {Langdetect, None} : detector = NewDetector(m)
    /\ last = [op |-> "none"]
    /\ ret = None
    /\ available_agents = {UNIVERSAL}
    /\ collection = EmptyCollection
    /\ fs = NoFiles
    /\ lpc = "idle" /\ stack = <<>> /\ result = NoResult
    /\ EngineIdle
    /\ SESSION_CACHE = <<>>
    /\ world = None

\* detector.detect(text)
Detect(text) ==
    /\ \E o \in lru_cache_detect(detector, text) :
          /\ detector' = [detector EXCEPT !.cache = o.cache]
          /\ ret' = o.value
          /\ last' = [op |-> "detect", text |-> text, hit |-> o.hit,
                      backend |-> o.backend, langdetect |-> detector.langdetect]
    /\ UNCHANGED <<available_agents, collection, loaderVars, engineVars,
                   SESSION_CACHE, world>>

\* detector.langdetect is assigned, as the tests of the detector do
SetBackend(langdetect) ==
    /\ langdetect # detector.langdetect
    /\ detector' = [detector EXCEPT !.langdetect = langdetect]
    /\ last' = [op |-> "patch"]
    /\ ret' = None
    /\ UNCHANGED <<available_agents, collection, loaderVars, engineVars,
                   SESSION_CACHE, world>>

\* another detector takes the place of this one
NewLanguageDetector(langdetect) ==
    /\ detector' = NewDetector(langdetect)
    /\ last' = [op |-> "__init__"]
    /\ ret' = None
    /\ UNCHANGED <<available_agents, collection, loaderVars, engineVars,
                   SESSION_CACHE, world>>

NextLanguage ==
    \/ \E text \in Texts : Detect(text)
    \/ \E m \in {Langdetect, None} : SetBackend(m)
    \/ \E m \in {Langdetect, None} : NewLanguageDetector(m)

SpecLanguage == InitLanguage /\ [][NextLanguage]_vars

-----------------------------------------------------------------------------
(* Claims about the detector                                               *)

\* the last call was detect and its body ran
DetectRan == last.op = "detect" /\ ~last.hit

\* the backend was consulted by the last call
Consulted == DetectRan /\ last.backend # NotCalled

\* C26: detect never raises.  It returns DEFAULT_LANGUAGE ("English") when
\* the text is empty, is whitespace or has fewer than 3 characters after
\* stripping, when the backend raises any exception, and when the ISO code the
\* backend answers is not in LANG_MAP; otherwise it returns LANG_MAP[code].
C26_DetectFallsBackToDefault ==
    last.op = "detect" =>
        /\ ret \in {LANG_MAP[c] : c \in DOMAIN LANG_MAP}
        /\ Len(str_strip(last.text)) < 3 => ret = DEFAULT_LANGUAGE
        /\ Consulted =>
              /\ Len(str_strip(last.text)) >= 3
              /\ last.backend.kind = "raised" => ret = DEFAULT_LANGUAGE
              /\ (last.backend.kind = "code"
                    /\ last.backend.iso_code \notin DOMAIN LANG_MAP)
                    => ret = DEFAULT_LANGUAGE
              /\ (last.backend.kind = "code"
                    /\ last.backend.iso_code \in DOMAIN LANG_MAP)
                    => ret = LANG_MAP[last.backend.iso_code]
        /\ (DetectRan /\ last.langdetect # None /\ Len(str_strip(last.text)) >= 3)
              => Consulted

\* the backend raised for a text that is long enough once stripped, while
\* the cache held another language for another text
C26_Witness ==
    /\ Consulted
    /\ last.backend = Raised("Exception")
    /\ last.text # str_strip(last.text)
    /\ ret = DEFAULT_LANGUAGE
    /\ \E t \in DOMAIN detector.cache : detector.cache[t] = "French"

\* C27: whenever the backend of the detector is None at the time of a call,
\* detect returns DEFAULT_LANGUAGE for every text, whatever calls of detect
\* were made before.
C27_NoBackendGivesDefault ==
    (last.op = "detect" /\ last.langdetect = None) => ret = DEFAULT_LANGUAGE

-----------------------------------------------------------------------------
(* The MCP server (server.py) and AgentSystem (main.py)                    *)
(* The tools are coroutines: between two awaits of a call any other call   *)
(* may run.  What the profiles and the two vector stores hold is kept as   *)
(* the world, a version of each, since the tools only pass it on.          *)

MaxEpochs == 2

\* What the tools read.  files: the version of the profiles on disk;
\* skills, implants: what the store holds, "empty", or "raises" when its
\* calls fail; epoch: how often the world or the session cache was changed
\* from outside the calls.  GHOST is an agent without a profile.
World(files, skills, implants, epoch) ==
    [files |-> files, skills |-> skills, implants |-> implants, epoch |-> epoch]
Worlds(epoch) ==
    {World("f1", "v1", "v1", epoch), World("f2", "v1", "v2", epoch),
     World("f1", "raises", "v1", epoch), World("f2", "empty", "raises", epoch)}

\* load_agent_prompt as the server sees it
LoadedPrompt(w, agent_name) ==
    IF agent_name = GHOST THEN Raised("FileNotFoundError")
    ELSE [kind |-> "prompt", agent |-> agent_name, files |-> w.files]

\* get_agent_metadata(agent_name).get("preferred_skills", []): no exception
\* leaves get_agent_metadata
PreferredOf(w, agent_name) ==
    IF agent_name # GHOST /\ w.files = "f2" THEN << <<"a">> >> ELSE <<>>

\* skill_retriever.retrieve(query, preferred_skills=...) formatted, and
\* implant_retriever.retrieve(query, n_results=3, role=agent_name) formatted
SkillsPart(w, query, preferred_skills) ==
    IF w.skills = "raises" THEN VectorStoreError
    ELSE IF w.skills = "empty" THEN None
    ELSE [kind |-> "skills", store |-> w.skills, query |-> query,
          preferred_skills |-> preferred_skills]
\* What the implants stores of the worlds hold.  Both have a.mdc, which is
\* near every search text without a "Context: " line and to none with one;
\* v2 has b.mdc too, which is near the search texts with such a line.
ImplantsFound(store, search) ==
    IF \A i \in 1..Len(search) : search[i] # "Context: " THEN <<A_MDC>>
    ELSE IF store = "v2" THEN <<B_MDC>>
    ELSE <<>>

\* history_text: context["history_text"] of a call that passes a context,
\* <<>> of one that passes none or an empty history
ImplantsPart(w, query, role, history_text) ==
    IF w.implants = "raises" THEN VectorStoreError
    ELSE IF w.implants = "empty" THEN None
    ELSE LET found == ImplantsFound(w.implants,
                                    search_query(query, history_text, <<role>>, <<>>))
         IN IF found = <<>> THEN None
            ELSE [kind |-> "implants", store |-> w.implants, query |-> query,
                  role |-> role, context |-> LastChars(history_text, 300),
                  found |-> found]

\* one step of get_dynamic_context_string: a retrieval that raises or finds
\* nothing adds no part
WithPart(context_parts, part) ==
    IF part.kind \in {"raised", "none"} THEN context_parts
    ELSE Append(context_parts, part)

\* enrich_agent_prompt
enrich_agent_prompt(base_prompt, context_parts) == <<base_prompt>> \o context_parts

\* str.lower() and `pattern in text`
Lower(c) ==
    CASE c = "E" -> "e" [] c = "L" -> "l" [] c = "Q" -> "q"
      [] c = "S" -> "s" [] c = "T" -> "t" [] OTHER -> c
str_lower(text) == [i \in 1..Len(text) |-> Lower(text[i])]
Contains(text, pattern) ==
    \E i \in 0..(Len(text) - Len(pattern)) :
        SubSeq(text, i + 1, i + Len(pattern)) = pattern

META_QUERY_PATTERNS ==
    {<<"w", "h", "a", "t", " ", "t", "o", "o", "l", "s">>,
     <<"w", "h", "a", "t", " ", "c", "a", "n", " ", "y", "o", "u">>,
     <<"h", "e", "l", "p", " ", "m", "e">>,
     <<"h", "e", "l", "l", "o">>,
     <<"h", "i", " ">>,
     <<"h", "e", "y", " ">>,
     <<"w", "h", "o", " ", "a", "r", "e", " ", "y", "o", "u">>,
     <<"w", "h", "a", "t", " ", "a", "r", "e", " ", "y", "o", "u">>,
     <<"i", "n", "t", "r", "o", "d", "u", "c", "e", " ", "y", "o", "u", "r",
       "s", "e", "l", "f">>,
     <<"?">>,
     <<"t", "e", "s", "t">>}

_is_meta_query(query) ==
    LET query_lower == str_strip(str_lower(query))
    IN \/ Len(query_lower) < 10
       \/ \E pattern \in META_QUERY_PATTERNS : Contains(query_lower, pattern)

\* the queries of the tools: a short one, and two of eleven characters of
\* which the second holds "test" once it is lowered
Q_INDEXES == <<"s", "q", "l", " ", "i", "n", "d", "e", "x", "e", "s">>
Q_TEST == <<"S", "Q", "L", " ", "T", "E", "S", "T", " ", "o", "k">>
ServerQueries == {Q_SQL, Q_INDEXES, Q_TEST}

\* hash(query): equal for equal strings; two queries of the model do not
\* collide
hash(query) == <<"hash", query>>
cache_key_AgentOnly(agent_name, query) == <<agent_name>>
cache_key(agent_name, query) == <<agent_name, ":", hash(query)>>

\* what the tools return
Success(agent, request_id, system_prompt, source) ==
    [status |-> "SUCCESS", agent |-> agent, request_id |-> request_id,
     system_prompt |-> system_prompt, source |-> source]
CacheHit(agent, system_prompt) ==
    [status |-> "CACHE_HIT", agent |-> agent, system_prompt |-> system_prompt]
CacheMiss(agents) ==
    [status |-> "CACHE_MISS", available_agents |-> agents,
     default_fallback |-> UNIVERSAL]
Error == [status |-> "ERROR"]

\* the reasoning of get_agent_context: its default, and the one
\* get_routing_info passes when it falls back on universal_agent
SELECTED_BY_MODEL == "Selected by Cursor Model"
AUTO_FALLBACK == "Auto-fallback: Meta-Query detected (greeting/capabilities/ambiguous)"

\* A call of a tool: where it is, what it was called with, what it has put
\* together so far, the epoch it began in and what it returned.  missed: it
\* is get_routing_info and lookup_cache answered None.  writes: it runs the
\* body of get_agent_context, which writes both caches.  reasoning: the
\* argument of get_agent_context that update_cache stores.  job: what the
\* executor has made of the job the call awaits.
ToolCall(tool, pc, agent_name, query, missed, writes, began) ==
    [tool |-> tool, pc |-> pc, agent_name |-> agent_name, query |-> query,
     missed |-> missed, writes |-> writes, began |-> began,
     reasoning |-> SELECTED_BY_MODEL,
     base_prompt |-> None, preferred_skills |-> <<>>, context_parts |-> <<>>,
     job |-> Pending, ret |-> None]
NoToolCall == ToolCall("none", "idle", "", <<>>, FALSE, FALSE, 0)

\* the call awaits at pc a job that the executor has yet to run
Awaits(id, pc) == tasks[id].pc = pc /\ tasks[id].job = Pending

\* the job the call awaits at pc is done and the loop resumes the call
Resumes(id, pc) == tasks[id].pc = pc /\ tasks[id].job # Pending

\* the worker thread hands over what its job made
Hands(id, value) == tasks' = [tasks EXCEPT ![id].job = Delivered(value)]

\* get_agent_context up to its first await: the session cache answers, or
\* the call hands load_agent_prompt to the executor
EnterAgentContext(call, id) ==
    LET key == cache_key(call.agent_name, call.query)
    IN IF key \in DOMAIN SESSION_CACHE
       THEN [call EXCEPT !.pc = "done", !.writes = TRUE, !.job = Pending,
                         !.ret = Success(call.agent_name, id, SESSION_CACHE[key],
                                         "SESSION_CACHE")]
       ELSE [call EXCEPT !.pc = "load", !.writes = TRUE, !.job = Pending]

InitServer ==
    /\ tasks = [id \in RequestIds |-> NoToolCall]
    /\ SESSION_CACHE = <<>>
    /\ world \in Worlds(0)
    /\ collection = EmptyCollection
    /\ available_agents = {UNIVERSAL, SECURITY}
    /\ last = [op |-> "none"]
    /\ ret = None
    /\ retriever = None
    /\ detector = None
    /\ fs = NoFiles
    /\ lpc = "idle" /\ stack = <<>> /\ result = NoResult

\* get_agent_context(agent_name, query) is called
GetAgentContext(id, agent_name, query) ==
    /\ tasks[id].pc = "idle"
    /\ tasks' = [tasks EXCEPT ![id] =
                    EnterAgentContext(ToolCall("get_agent_context", "start", agent_name,
                                               query, FALSE, TRUE, world.epoch), id)]
    /\ UNCHANGED <<routerVars, loaderVars, retriever, detector, SESSION_CACHE, world>>

\* get_routing_info(query) is called and awaits router.lookup_cache
GetRoutingInfo(id, query) ==
    /\ tasks[id].pc = "idle"
    /\ tasks' = [tasks EXCEPT ![id] =
                    ToolCall("get_routing_info", "lookup", "", query, FALSE, FALSE,
                             world.epoch)]
    /\ UNCHANGED <<routerVars, loaderVars, retriever, detector, SESSION_CACHE, world>>

\* the worker thread runs the store's query for lookup_cache (router.py:87),
\* which answers None when it raised
RouterLookupJob(id, lookup_fails) ==
    /\ Awaits(id, "lookup")
    /\ \E cached \in lookup_cache(collection, tasks[id].query, NoHistory, lookup_fails) :
          Hands(id, cached)
    /\ UNCHANGED <<routerVars, loaderVars, retriever, detector, SESSION_CACHE, world>>

\* get_routing_info is resumed with the answer of lookup_cache: on a hit it
\* hands load_agent_prompt for the cached agent to the executor; on a miss a
\* meta query is passed to get_agent_context for universal_agent, with the
\* reasoning of the fallback, and any other query gets the list of agents
AwaitRouterLookup(id) ==
    /\ Resumes(id, "lookup")
    /\ LET cached == tasks[id].job.value
       IN tasks' = [tasks EXCEPT ![id] =
             IF cached # None
             THEN [@ EXCEPT !.pc = "load", !.agent_name = cached.target_agent,
                            !.job = Pending]
             ELSE IF _is_meta_query(@.query)
             THEN EnterAgentContext([@ EXCEPT !.agent_name = UNIVERSAL,
                                              !.reasoning = AUTO_FALLBACK,
                                              !.missed = TRUE], id)
             ELSE [@ EXCEPT !.pc = "done", !.missed = TRUE, !.job = Pending,
                            !.ret = CacheMiss(available_agents)]]
    /\ UNCHANGED <<routerVars, loaderVars, retriever, detector, SESSION_CACHE, world>>

\* the worker thread runs load_agent_prompt
LoadJob(id) ==
    /\ Awaits(id, "load")
    /\ Hands(id, LoadedPrompt(world, tasks[id].agent_name))
    /\ UNCHANGED <<routerVars, loaderVars, retriever, detector, SESSION_CACHE, world>>

\* the call is resumed with the prompt, or with the exception that ends it,
\* and hands get_agent_metadata to the executor
AwaitLoad(id) ==
    /\ Resumes(id, "load")
    /\ LET base_prompt == tasks[id].job.value
       IN tasks' = [tasks EXCEPT ![id] =
             IF base_prompt.kind = "raised"
             THEN [@ EXCEPT !.pc = "done", !.job = Pending, !.ret = Error]
             ELSE [@ EXCEPT !.pc = "metadata", !.job = Pending,
                            !.base_prompt = base_prompt]]
    /\ UNCHANGED <<routerVars, loaderVars, retriever, detector, SESSION_CACHE, world>>

\* the worker thread runs get_agent_metadata
MetadataJob(id) ==
    /\ Awaits(id, "metadata")
    /\ Hands(id, PreferredOf(world, tasks[id].agent_name))
    /\ UNCHANGED <<routerVars, loaderVars, retriever, detector, SESSION_CACHE, world>>

\* the call is resumed with the metadata and, in get_dynamic_context_string,
\* hands the retrieval of skills to the executor
AwaitMetadata(id) ==
    /\ Resumes(id, "metadata")
    /\ tasks' = [tasks EXCEPT ![id] =
                    [@ EXCEPT !.pc = "skills", !.job = Pending,
                              !.preferred_skills = tasks[id].job.value]]
    /\ UNCHANGED <<routerVars, loaderVars, retriever, detector, SESSION_CACHE, world>>

\* the worker thread runs skill_retriever.retrieve
SkillsJob(id) ==
    /\ Awaits(id, "skills")
    /\ Hands(id, SkillsPart(world, tasks[id].query, tasks[id].preferred_skills))
    /\ UNCHANGED <<routerVars, loaderVars, retriever, detector, SESSION_CACHE, world>>

\* the call is resumed with the skills and hands the retrieval of implants
\* to the executor
AwaitSkills(id) ==
    /\ Resumes(id, "skills")
    /\ tasks' = [tasks EXCEPT ![id] =
                    [@ EXCEPT !.pc = "implants", !.job = Pending,
                              !.context_parts = WithPart(@, tasks[id].job.value)]]
    /\ UNCHANGED <<routerVars, loaderVars, retriever, detector, SESSION_CACHE, world>>

\* the worker thread runs implant_retriever.retrieve: it reads the store of
\* implants as it is now
ImplantsJob(id) ==
    /\ Awaits(id, "implants")
    /\ Hands(id, ImplantsPart(world, tasks[id].query, tasks[id].agent_name, NoHistory))
    /\ UNCHANGED <<routerVars, loaderVars, retriever, detector, SESSION_CACHE, world>>

\* The call is resumed with the implants its job found and the prompt is put
\* together.  get_routing_info returns it; get_agent_context stores it in
\* the session cache and awaits router.update_cache.
AwaitImplants(id) ==
    /\ Resumes(id, "implants")
    /\ LET call == tasks[id]
           context_parts == WithPart(call.context_parts, call.job.value)
           final_prompt == enrich_agent_prompt(call.base_prompt, context_parts)
       IN IF call.writes
          THEN /\ SESSION_CACHE' =
                     (cache_key(call.agent_name, call.query) :> final_prompt)
                     @@ SESSION_CACHE
               /\ tasks' = [tasks EXCEPT ![id] =
                               [@ EXCEPT !.pc = "update", !.job = Pending,
                                         !.context_parts = context_parts]]
          ELSE /\ SESSION_CACHE' = SESSION_CACHE
               /\ tasks' = [tasks EXCEPT ![id] =
                               [@ EXCEPT !.pc = "done", !.job = Pending,
                                         !.context_parts = context_parts,
                                         !.ret = CacheHit(call.agent_name, final_prompt)]]
    /\ UNCHANGED <<routerVars, loaderVars, retriever, detector, world>>

\* the worker thread runs the store's add for update_cache (router.py:116),
\* whether the store takes the entry or not
UpdateCacheJob(id, store_fails) ==
    /\ Awaits(id, "update")
    /\ collection' = update_cache(collection, tasks[id].query, tasks[id].agent_name,
                                  tasks[id].reasoning, id, store_fails)
    /\ Hands(id, None)
    /\ UNCHANGED <<available_agents, last, ret, loaderVars, retriever, detector,
                   SESSION_CACHE, world>>

\* update_cache is done and get_agent_context returns
AwaitUpdateCache(id) ==
    /\ Resumes(id, "update")
    /\ tasks' = [tasks EXCEPT ![id] =
                    [@ EXCEPT !.pc = "done", !.job = Pending,
                              !.ret = Success(tasks[id].agent_name, id,
                                              enrich_agent_prompt(
                                                  tasks[id].base_prompt,
                                                  tasks[id].context_parts),
                                              "COMPOSED")]]
    /\ UNCHANGED <<routerVars, loaderVars, retriever, detector, SESSION_CACHE, world>>

\* the tool clear_session_cache
clear_session_cache ==
    /\ world.epoch < MaxEpochs
    /\ SESSION_CACHE # <<>>
    /\ SESSION_CACHE' = <<>>
    /\ world' = [world EXCEPT !.epoch = @ + 1]
    /\ UNCHANGED <<routerVars, loaderVars, engineVars, detector>>

\* somebody edits the profiles or writes to the stores
ChangeWorld(w) ==
    /\ world.epoch < MaxEpochs
    /\ w \in Worlds(world.epoch + 1)
    /\ [w EXCEPT !.epoch = 0] # [world EXCEPT !.epoch = 0]
    /\ world' = w
    /\ UNCHANGED <<routerVars, loaderVars, engineVars, detector, SESSION_CACHE>>

NextServer ==
    \/ \E id \in RequestIds :
          \/ \E a \in {UNIVERSAL, GHOST}, q \in {Q_SQL, Q_INDEXES} :
                GetAgentContext(id, a, q)
          \/ \E q \in ServerQueries : GetRoutingInfo(id, q)
          \/ \E lookup_fails \in BOOLEAN : RouterLookupJob(id, lookup_fails)
          \/ AwaitRouterLookup(id)
          \/ LoadJob(id)
          \/ AwaitLoad(id)
          \/ MetadataJob(id)
          \/ AwaitMetadata(id)
          \/ SkillsJob(id)
          \/ AwaitSkills(id)
          \/ ImplantsJob(id)
          \/ AwaitImplants(id)
          \/ \E store_fails \in BOOLEAN : UpdateCacheJob(id, store_fails)
          \/ AwaitUpdateCache(id)
    \/ clear_session_cache
    \/ \E w \in Worlds(world.epoch + 1) : ChangeWorld(w)

SpecServer == InitServer /\ [][NextServer]_vars

-----------------------------------------------------------------------------
(* Claims about the tools of the server                                    *)

\* C21: the session cache is never evicted: once get_agent_context has
\* stored a prompt under the key of (agent_name, hash(query)), the key is
\* present in every later state, whatever tools are called.
C21_SessionCacheKeepsKeys ==
    [][\A key \in DOMAIN SESSION_CACHE : key \in DOMAIN SESSION_CACHE']_vars

\* the call runs, or ran, the body of get_agent_context
InAgentContext(id) == tasks[id].pc # "idle" /\ tasks[id].writes

\* the prompt the call put together, once it has all its parts
ComposedBy(id) == enrich_agent_prompt(tasks[id].base_prompt, tasks[id].context_parts)

\* the call put a prompt together and stored it
Stored(id) ==
    /\ InAgentContext(id)
    /\ tasks[id].pc \in {"update", "done"}
    /\ tasks[id].base_prompt # None

\* the call returned SUCCESS
Succeeded(id) ==
    InAgentContext(id) /\ tasks[id].pc = "done" /\ tasks[id].ret.status = "SUCCESS"

\* the two calls are of get_agent_context with the same agent and query
SameInputs(i, j) ==
    /\ InAgentContext(i) /\ InAgentContext(j)
    /\ tasks[i].agent_name = tasks[j].agent_name
    /\ tasks[i].query = tasks[j].query

\* the prompt is one for this agent and this query
PromptFor(system_prompt, agent_name, query) ==
    /\ system_prompt[1].kind = "prompt"
    /\ system_prompt[1].agent = agent_name
    /\ \A n \in 2..Len(system_prompt) :
          /\ system_prompt[n].query = query
          /\ system_prompt[n].kind = "implants" => system_prompt[n].role = agent_name

\* what is in the session cache is whole: under each key the prompt that one
\* of the calls with that key put together
C22_CacheIsWhole ==
    \A key \in DOMAIN SESSION_CACHE :
        \E id \in RequestIds :
            /\ Stored(id)
            /\ cache_key(tasks[id].agent_name, tasks[id].query) = key
            /\ SESSION_CACHE[key] = ComposedBy(id)

\* a call that stores its prompt leaves it under its key (the last write
\* wins) and leaves the other keys alone
C22_LastWriteWins ==
    \A id \in RequestIds :
        (tasks[id].pc = "implants" /\ tasks'[id].pc = "update") =>
            LET key == cache_key(tasks[id].agent_name, tasks[id].query)
            IN /\ key \in DOMAIN SESSION_CACHE'
               /\ SESSION_CACHE'[key] = enrich_agent_prompt(tasks'[id].base_prompt,
                                                            tasks'[id].context_parts)
               /\ \A k \in DOMAIN SESSION_CACHE \ {key} :
                     k \in DOMAIN SESSION_CACHE' /\ SESSION_CACHE'[k] = SESSION_CACHE[k]

\* calls with the same agent and query, none of which saw the profiles, the
\* stores or the cache changed from outside, return the same prompt, and it
\* is a prompt for that agent and query
C22_SameAnswers ==
    \A i \in RequestIds :
        Succeeded(i) =>
            /\ PromptFor(tasks[i].ret.system_prompt, tasks[i].agent_name, tasks[i].query)
            /\ \A j \in RequestIds :
                  (/\ Succeeded(j) /\ SameInputs(i, j)
                   /\ \A k \in RequestIds :
                         SameInputs(i, k) => tasks[k].began = world.epoch)
                      => tasks[i].ret.system_prompt = tasks[j].ret.system_prompt

\* C22: concurrent calls of get_agent_context racing on the same key never
\* corrupt the session cache: the key holds exactly the prompt one of them
\* composed, the last write winning, and for identical inputs and unchanged
\* stores all of them return the same system_prompt.
C22_RacingCallsAgree ==
    /\ [](C22_CacheIsWhole /\ C22_SameAnswers)
    /\ [][C22_LastWriteWins]_vars

\* two calls with the same agent and query both found the key absent, both
\* stored a prompt with two retrieved parts, and both have returned
C22_Witness ==
    \E i, j \in RequestIds :
        /\ i # j
        /\ SameInputs(i, j)
        /\ Succeeded(i) /\ Succeeded(j)
        /\ tasks[i].ret.source = "COMPOSED" /\ tasks[j].ret.source = "COMPOSED"
        /\ Len(tasks[i].ret.system_prompt) = 3
        /\ tasks[i].began = world.epoch /\ tasks[j].began = world.epoch
        /\ cache_key(tasks[i].agent_name, tasks[i].query) \in DOMAIN SESSION_CACHE

\* the call is get_routing_info and lookup_cache found nothing for its query
RoutingMiss(id) == tasks[id].tool = "get_routing_info" /\ tasks[id].missed

\* what get_routing_info does once the semantic cache has missed: the step
\* that finds the miss and every step of the call after it
C28_Step ==
    \A id \in RequestIds :
        (tasks'[id] # tasks[id] /\ RoutingMiss(id)') =>
            /\ collection' = collection
            /\ SESSION_CACHE' = SESSION_CACHE
            /\ tasks'[id].pc = "done"
            /\ tasks'[id].ret = CacheMiss(available_agents)

\* C28: get_routing_info only checks the semantic cache: on a miss it
\* returns CACHE_MISS with the available agents and leaves both the router
\* cache and the session cache unchanged, for every query.
C28_RoutingInfoOnlyLooksUp == [][C28_Step]_vars

\* the router cache holds an entry that maps the query to the agent
RouterMaps(coll, query, agent_name) ==
    \E id \in DOMAIN coll :
        /\ coll[id].document = query
        /\ coll[id].metadata.target_agent = agent_name

\* C29: whenever get_agent_context returns SUCCESS for (agent_name, query),
\* the router cache holds an entry mapping that query to agent_name at the
\* time of the return, also when the call was answered from the session
\* cache and when it ran interleaved with other calls.
C29_SuccessMeansRouted ==
    [][\A id \in RequestIds :
          (tasks[id].pc # "done" /\ Succeeded(id)') =>
              RouterMaps(collection', tasks'[id].query, tasks'[id].agent_name)]_vars

-----------------------------------------------------------------------------
(* AgentSystem.process_request (main.py)                                   *)

FALLBACK_PROMPT == [kind |-> "prompt", agent |-> "", files |-> "You are a helpful assistant."]

\* What process_request does with the decision of the router: the response
\* it returns, or the exception that leaves it.  llm_fails: the call of the
\* OpenAI client raises.
AgentResponse(agent_name, system_prompt) ==
    [kind |-> "response", agent_name |-> agent_name, system_prompt |-> system_prompt]

process_request(w, decision, user_query, history_text, llm_fails) ==
    LET loaded == LoadedPrompt(w, decision.target_agent)
        system_prompt == IF loaded.kind = "raised" THEN FALLBACK_PROMPT ELSE loaded
        implants == ImplantsPart(w, user_query, decision.target_agent, history_text)
    IN IF implants.kind = "raised" THEN implants
       ELSE IF llm_fails THEN Raised("OpenAIError")
       ELSE AgentResponse(decision.target_agent, WithPart(<<system_prompt>>, implants))

\* "\n".join(history)
RECURSIVE JoinLines(_)
JoinLines(lines) ==
    IF lines = <<>> THEN <<>>
    ELSE IF Len(lines) = 1 THEN lines[1]
    ELSE lines[1] \o <<NL>> \o JoinLines(Tail(lines))

\* the histories and the queries process_request is called with
HistoryLists == {<<>>, << <<"h">> >>}
MainQueries == {Q_SQL, Q_INDEXES}

-----------------------------------------------------------------------------
(* SemanticRouter.route, SemanticRouter.lookup_cache and                   *)
(* AgentSystem.process_request, one await at a time                        *)

InitRouter ==
    /\ available_agents = _scan_agents(AGENTS_DIR)
    /\ collection = EmptyCollection
    /\ last = NoCall
    /\ ret = None
    /\ fs = NoFiles
    /\ LoaderIdle
    /\ ServerIdle
    /\ retriever = None
    /\ tasks = [s \in Slots |-> NotRunning]

\* AgentSystem(): the router, and the ContextRetriever with the detector that
\* get_detector() constructs; the import of langdetect succeeds or not
InitMain ==
    /\ world \in Worlds(0)
    /\ available_agents = _scan_agents(AGENTS_DIR)
    /\ collection = EmptyCollection
    /\ last = NoCall
    /\ ret = None
    /\ fs = NoFiles
    /\ lpc = "idle" /\ stack = <<>> /\ result = NoResult
    /\ retriever = None
    /\ tasks = [s \in Slots |-> NotRunning]
    /\ \E m \in {Langdetect, None} : detector = NewDetector(m)
    /\ SESSION_CACHE = <<>>

\* route(request) is called and awaits lookup_cache
RouteCalled(slot, query, history_text) ==
    /\ FreeSlot(slot)
    /\ tasks' = WithCall(slot, "route", query, history_text)
    /\ UNCHANGED <<routerVars, loaderVars, serverVars, retriever>>

\* lookup_cache is called on its own and awaits the store's query
LookupCacheCalled(slot, query, history_text) ==
    /\ FreeSlot(slot)
    /\ tasks' = WithCall(slot, "lookup", query, history_text)
    /\ UNCHANGED <<routerVars, loaderVars, serverVars, retriever>>

\* process_request(user_query, history) up to its await of route: the
\* context is retrieved, which has the detector asked for the language of the
\* query.  The request id is a new uuid4: one that no entry has (the calls
\* begin while the ids of the model last).
ProcessRequestCalled(slot, user_query, history) ==
    /\ FreeSlot(slot)
    /\ Cardinality(DOMAIN collection) + Cardinality(InFlight) < MaxIds
    /\ \E detected \in lru_cache_detect(detector, user_query) :
          detector' = [detector EXCEPT !.cache = detected.cache]
    /\ tasks' = WithCall(slot, "process_request", user_query, JoinLines(history))
    /\ UNCHANGED <<routerVars, loaderVars, SESSION_CACHE, world, retriever>>

\* The call in the slot returns this decision.  route and lookup_cache hand
\* it to their caller; process_request goes on with it to its end, steps 3
\* to 5, without an await.
Returns(slot, call, decision) ==
    /\ tasks' = [tasks EXCEPT ![slot] = NotRunning]
    /\ IF tasks[slot].op = "process_request"
       THEN \E llm_fails \in BOOLEAN :
               LET response == process_request(world, decision, call.query,
                                               call.history, llm_fails)
               IN /\ ret' = response
                  /\ last' = [op |-> "process_request", query |-> call.query,
                              history |-> call.history,
                              target_agent |-> decision.target_agent,
                              llm_fails |-> llm_fails,
                              profile_found |->
                                  LoadedPrompt(world, decision.target_agent).kind # "raised",
                              implants_failed |-> response = VectorStoreError]
       ELSE /\ ret' = decision
            /\ last' = call

\* The worker thread runs the store's query of lookup_cache (router.py:87):
\* it reads the collection as it is now, or raises.  The call stays
\* suspended.
RouteQueried(slot, lookup_fails) ==
    /\ tasks[slot].pc = "lookup"
    /\ tasks[slot].job = Pending
    /\ \E cached \in lookup_cache(collection, tasks[slot].query, tasks[slot].history,
                                  lookup_fails) :
          tasks' = [tasks EXCEPT ![slot] =
                       [@ EXCEPT !.job = Delivered(cached),
                                 !.lookup_fails = lookup_fails]]
    /\ UNCHANGED <<routerVars, loaderVars, serverVars, retriever>>

\* The loop resumes the call with the answer of the query.  lookup_cache
\* returns what it made of it.  route returns a hit; on a miss it calls
\* _get_llm_decision, which returns at once when the client cannot be made
\* (client_fails) and awaits the classifier's answer otherwise.
RouteLookedUp(slot, client_fails) ==
    /\ tasks[slot].pc = "lookup"
    /\ tasks[slot].job # Pending
    /\ LET call == tasks[slot]
           op == IF call.op = "lookup" THEN "lookup" ELSE "route"
           cached == call.job.value
       IN IF cached # None \/ call.op = "lookup"
          THEN Returns(slot, Call(op, call.query, call.history, NotCalled,
                                  call.lookup_fails, FALSE, call.setting, FALSE), cached)
          ELSE IF client_fails
          THEN Returns(slot, Call(op, call.query, call.history, [kind |-> "init_error"],
                                  call.lookup_fails, FALSE, call.setting, FALSE),
                       _get_llm_decision([kind |-> "init_error"]))
          ELSE /\ tasks' = [tasks EXCEPT ![slot] =
                               [@ EXCEPT !.pc = "classify", !.job = Pending]]
               /\ UNCHANGED <<last, ret>>
    /\ UNCHANGED <<available_agents, collection, loaderVars, serverVars, retriever>>

\* The classifier's call is done, with an answer or with an exception.  A
\* decision that passes the gate is to be written: update_cache hands the
\* add to the executor; any other decision is returned.
RouteClassified(slot, response) ==
    /\ tasks[slot].pc = "classify"
    /\ response.kind # "init_error"
    /\ LET call == tasks[slot]
           decision == _get_llm_decision(response)
       IN IF decision.kind = "decision" /\ ShouldCache(decision)
          THEN /\ tasks' = [tasks EXCEPT ![slot] =
                               [@ EXCEPT !.pc = "write", !.response = response]]
               /\ UNCHANGED <<last, ret>>
          ELSE Returns(slot, Call("route", call.query, call.history, response,
                                  call.lookup_fails, FALSE, call.setting, FALSE), decision)
    /\ UNCHANGED <<available_agents, collection, loaderVars, serverVars, retriever>>

\* The worker thread runs the store's add of update_cache (router.py:116),
\* which takes the entry or raises.  request_id: the id of the request,
\* which is read here for the first time.  The call stays suspended.
RouteAdded(slot, request_id, write_fails) ==
    /\ tasks[slot].pc = "write"
    /\ tasks[slot].job = Pending
    /\ tasks[slot].op = "process_request" => request_id \notin DOMAIN collection
    /\ LET call == tasks[slot]
           decision == _get_llm_decision(call.response)
       IN /\ collection' = update_cache(collection, call.query, decision.target_agent,
                                        decision.reasoning, request_id, write_fails)
          /\ tasks' = [tasks EXCEPT ![slot] =
                          [@ EXCEPT !.job = Delivered(None),
                                    !.write_fails = write_fails,
                                    !.wrote = collection' # collection]]
    /\ UNCHANGED <<available_agents, last, ret, loaderVars, serverVars, retriever>>

\* The loop resumes the call after the add: update_cache is done, whether the
\* store took the entry or not, and route returns the classifier's decision.
RouteUpdated(slot) ==
    /\ tasks[slot].pc = "write"
    /\ tasks[slot].job # Pending
    /\ LET call == tasks[slot]
       IN Returns(slot, Call("route", call.query, call.history, call.response,
                             call.lookup_fails, call.write_fails, call.setting,
                             call.wrote),
                  _get_llm_decision(call.response))
    /\ UNCHANGED <<available_agents, collection, loaderVars, serverVars, retriever>>

\* What the router is called with.  Calls are made while another is in
\* flight only of route, for the same query and without a history.
RouteArguments ==
    IF InFlight = {} THEN Queries \X Histories
    ELSE IF \A s \in InFlight : /\ tasks[s].op = "route"
                                /\ tasks[s].query = Q_SQL
                                /\ tasks[s].history = NoHistory
    THEN {<<Q_SQL, NoHistory>>}
    ELSE {}
LookupArguments == IF InFlight = {} THEN Queries \X Histories ELSE {}

NextRouter ==
    \E slot \in Slots :
        \/ \E args \in RouteArguments : RouteCalled(slot, args[1], args[2])
        \/ \E args \in LookupArguments : LookupCacheCalled(slot, args[1], args[2])
        \/ \E lookup_fails \in BOOLEAN : RouteQueried(slot, lookup_fails)
        \/ \E client_fails \in BOOLEAN : RouteLookedUp(slot, client_fails)
        \/ \E response \in ClassifierResponses : RouteClassified(slot, response)
        \/ \E request_id \in RequestIds, write_fails \in BOOLEAN :
              RouteAdded(slot, request_id, write_fails)
        \/ RouteUpdated(slot)

SpecRouter == InitRouter /\ [][NextRouter]_vars

\* somebody edits the profiles or writes to the stores, at any time and any
\* number of times; process_request keeps nothing of what it read, so the
\* edits are not counted
ChangeWorldOfMain(w) ==
    /\ w \in Worlds(0)
    /\ w # world
    /\ world' = w
    /\ UNCHANGED <<routerVars, loaderVars, engineVars, detector, SESSION_CACHE>>

\* What process_request is called with.  A call is made while another is in
\* flight only for the same query and without a history.
ProcessArguments ==
    IF InFlight = {} THEN MainQueries \X HistoryLists
    ELSE IF \A s \in InFlight : tasks[s].query = Q_SQL /\ tasks[s].history = NoHistory
    THEN {<<Q_SQL, <<>> >>}
    ELSE {}

NextMain ==
    \/ \E slot \in Slots :
          \/ \E args \in ProcessArguments : ProcessRequestCalled(slot, args[1], args[2])
          \/ \E lookup_fails \in BOOLEAN : RouteQueried(slot, lookup_fails)
          \/ \E client_fails \in BOOLEAN : RouteLookedUp(slot, client_fails)
          \/ \E response \in ClassifierResponses : RouteClassified(slot, response)
          \/ \E request_id \in RequestIds, write_fails \in BOOLEAN :
                RouteAdded(slot, request_id, write_fails)
          \/ RouteUpdated(slot)
    \/ \E w \in Worlds(0) : ChangeWorldOfMain(w)

SpecMain == InitMain /\ [][NextMain]_vars

\* C23: failures local to one fragment or one retrieval call never abort the
\* composition of the prompt; only the failure to locate the top-level
\* profile is fatal.  For process_request: it raises when the profile of the
\* target agent cannot be located, and otherwise, the language model
\* answering, it returns a response whether the retrieval of implants failed
\* or not.
C23_OnlyMissingProfileIsFatal ==
    (last.op = "process_request" /\ ~last.llm_fails) =>
        (ret.kind = "raised" <=> ~last.profile_found)

-----------------------------------------------------------------------------
(* Claims about what the write-back of route stores                        *)

\* the entries a step added to the router cache
Added == DOMAIN collection' \ DOMAIN collection

\* C31: for one request, the string the write-back stores as the indexed
\* document of the cache entry is the string lookup_cache searched the store
\* for, whether the history is empty or not, so that repeating a confidently
\* routed request with the same history finds an identical string.
C31_Step ==
    \A slot \in Slots :
        (AddRuns(slot) /\ tasks[slot].op = "route") =>
            \A id \in Added :
                collection'[id].document =
                    SemanticQuery(tasks[slot].query, tasks[slot].history)

C31_WriteBackStoresSearchString == [][C31_Step]_vars

\* the step is the write-back of a route whose classifier decision passed
\* the gate, and the store did not refuse the write
WroteBack ==
    \E slot \in Slots :
        /\ AddRuns(slot)
        /\ tasks[slot].op = "route"
        /\ ShouldCache(_get_llm_decision(tasks[slot].response))
        /\ ~tasks'[slot].write_fails

\* C32: each write-back of route stores a new entry under an id that was not
\* in the cache before, so no write-back overwrites an entry or is dropped
\* because its id is taken, whatever request ids the callers supply.
C32_Step ==
    WroteBack =>
        /\ Cardinality(Added) = 1
        /\ \A id \in DOMAIN collection :
              id \in DOMAIN collection' /\ collection'[id] = collection[id]

C32_WriteBackIsFresh == [][C32_Step]_vars

-----------------------------------------------------------------------------
(* Claims about what the indexers store and the retrievers hand back       *)

\* the text of a file without its leading metadata block: what follows the
\* second delimiter when the file begins with one, and the whole text when
\* there is no block
WithoutMetadataBlock(content) ==
    LET parts == Split2(content)
    IN IF content # <<>> /\ Head(content) = Dash /\ Len(parts) >= 3
       THEN Strip(parts[3])
       ELSE content

\* C33: after index_skills or index_implants completes, the collection has
\* one entry for every .mdc file of the directory, under the name of the file
\* as id, whose metadata body is the text of the file without its leading
\* metadata block; a file without a block, with an empty block or with a block
\* that is not a mapping is no exception.
C33_Step ==
    last'.op = "index" =>
        \A n \in glob(retriever'.dir) :
            retriever'.dir.files[n].kind = "file" =>
                /\ n \in DOMAIN retriever'.coll
                /\ retriever'.coll[n].metadata.filename = n
                /\ retriever'.coll[n].metadata.body =
                       WithoutMetadataBlock(retriever'.dir.files[n].content)

C33_IndexCoversEveryFile == [][C33_Step]_vars

\* the content is the clean body of the entry; texts of different lengths
\* are not compared further
IsBodyOf(content, entry) ==
    /\ Len(content) = Len(entry.metadata.body)
    /\ content = entry.metadata.body

\* the last call was retrieve and it returned a list: the last call it made
\* on the store did not raise
RetrieveReturned ==
    /\ last.op = "retrieve"
    /\ last.calls[Len(last.calls)] \notin last.fails

\* C34: every fragment handed back, by id or by similarity, by
\* SkillRetriever.retrieve, by ImplantRetriever.retrieve or by the tool
\* get_reasoning_strategy, has as its content the clean body stored in the
\* metadata of its entry, never the indexed text of description and body.
C34_FragmentsCarryBody ==
    /\ RetrieveReturned =>
           \A i \in 1..Len(ret) :
               IsBodyOf(ret[i].content, retriever.coll[ret[i].filename])
    /\ (last.op = "strategy" /\ ret.kind = "formatted") =>
           \A i \in 1..Len(ret.sections) :
               IsBodyOf(ret.sections[i].content,
                        last.read[ret.sections[i].filename])

\* the part of C34 about the two methods retrieve alone
C34_RetrieveCarriesBody ==
    RetrieveReturned =>
        \A i \in 1..Len(ret) :
            IsBodyOf(ret[i].content, retriever.coll[ret[i].filename])

-----------------------------------------------------------------------------
(* Claims about the paths and the text of the documents loaded             *)

\* the reference placed under a directory, as os.path.join places it
Under(dir, ref) == IF ref.abs THEN ref.comps ELSE dir \o ref.comps

\* where the four rules send a reference: the first rule that applies decides
MappedByRules(fsys, ref) ==
    LET root == fsys.root
        cursor == root \o <<".cursor">>
        clean == [ref EXCEPT !.at = FALSE]
    IN CASE ref.at /\ StartsWithDotCursor(clean) -> Under(root, clean)
         [] ref.at /\ ~StartsWithDotCursor(clean) /\ StartsWithAgents(clean) ->
                Under(cursor, clean)
         [] ref.at /\ ~StartsWithDotCursor(clean) /\ ~StartsWithAgents(clean) ->
                IF exists(fsys, Under(cursor, clean)) THEN Under(cursor, clean)
                ELSE Under(root, clean)
         [] ~ref.at -> Under(root, ref)

\* the outcome of resolve_path by the rules: the path made absolute when it
\* lies in the sandbox, and the security error when it does not
ResolvedByRules(fsys, ref) ==
    LET p == abspath(MappedByRules(fsys, ref))
    IN IF Inside(fsys, p) THEN Resolved(p) ELSE ValueError

\* the reference load_agent_prompt resolves for an agent
ProfileRef(fsys, agent_name) ==
    Ref(FALSE, FALSE,
        relpath(abspath(Join(fsys.root \o <<".cursor", "agents">>, agent_name)
                            \o <<"system_prompt.mdc">>),
                fsys.root))

\* C35: resolve_path maps a reference by these rules in order: with the
\* leading "@" removed, a reference beginning with ".cursor" goes directly
\* under the sandbox root; one beginning with "agents" goes under the
\* ".cursor" of the root; any other "@" reference goes under ".cursor" if that
\* candidate exists and under the root if not; a reference without "@" goes
\* under the root.  The same reference and the same file system always give
\* the same path.  Seen at every step that resolves a reference: the file
\* the expansion enters, or the security block it writes, is the one the rules
\* give.
C35_Step ==
    /\ (lpc = "expanding" /\ Top.rest # <<>> /\ Head(Top.rest).k = "ref"
            /\ lpc' = "expanding" /\ stack' # stack) =>
           LET ref == Head(Top.rest).ref
               r == ResolvedByRules(fs, ref)
               blocked == /\ Len(stack') = Len(stack)
                          /\ stack'[Len(stack)].out =
                                 Top.out \o <<Marker("SECURITY BLOCK", ref, <<>>)>>
           IN /\ r = resolve_path(fs, ref)
              /\ Len(stack') > Len(stack) =>
                     r.ok /\ stack'[Len(stack')].path = r.path
              /\ (r.ok /\ r.path \notin Top.seen) =>
                     Len(stack') > Len(stack)
              /\ ~r.ok <=> blocked
    /\ (lpc = "idle" /\ lpc' = "expanding") =>
           \E a \in AgentNames :
               LET r == ResolvedByRules(fs, ProfileRef(fs, a))
               IN r.ok /\ r = resolve_path(fs, ProfileRef(fs, a))
                       /\ stack'[1].path = r.path

C35_ResolvesByRules == [][C35_Step]_vars

\* the expansion has entered x.mdc through a reference beginning with
\* "agents" and, from there, y.mdc under ".cursor" through a reference of the
\* other kind, while a y.mdc lies under the root as well
C35_Witness ==
    /\ Len(stack) = 3
    /\ stack[2].path = P_X(fs.root)
    /\ stack[3].path = P_Y1(fs.root)
    /\ exists(fs, P_Y2(fs.root))

\* the delimiter at place i of the text stands on a line of its own
OwnLine(c, i) ==
    /\ c[i] = Dash
    /\ (i = 1 \/ c[i - 1] = Ws)
    /\ (i = Len(c) \/ c[i + 1] = Ws)

\* the text to use of a document that begins with the delimiter: the body
\* after the line of the next delimiter that stands on a line of its own,
\* and the whole document when there is none
BodyAfterBlock(c) ==
    LET closing == {i \in 2..Len(c) : OwnLine(c, i)}
    IN IF closing = {} THEN c
       ELSE LET i == CHOOSE j \in closing : \A k \in closing : j <= k
            IN Strip(SubSeq(c, i + 1, Len(c)))

\* C36: when a loaded document begins with the metadata delimiter (on a line
\* of its own), the metadata block ends at the next delimiter that stands on a line of its own
\* and the text used is the body after that line; the characters of the
\* delimiter inside a line of metadata do not end the block, and a document
\* with the opening delimiter only is used whole.  Seen at every step that
\* begins the expansion of a file: the text to expand is that body (white
\* space around it apart).
C36_Step ==
    Len(stack') > Len(stack) =>
        LET frame == stack'[Len(stack')]
            file == Follow(fs, frame.path)
        IN (/\ file \in DOMAIN fs.files
            /\ fs.files[file].kind = "file"
            /\ fs.files[file].content # <<>>
            /\ OwnLine(fs.files[file].content, 1)) =>
               frame.rest = Scan(BodyAfterBlock(fs.files[file].content))

C36_BlockEndsAtOwnLine == [][C36_Step]_vars

====
